---------------------------- MODULE Spec2Model ----------------------------
(***************************************************************************)
(* The request-routing core of legalswami's backend:                       *)
(*   - ApiKeyService: the credential pool (availableKeys list plus the     *)
(*     keyUsageTracker map), with getRotatedKey and markKeyAsInvalid;      *)
(*   - GroqService: the model dispatcher (availableModels, the cursor      *)
(*     currentModelIndex, per-model counters) with sendChatCompletion,     *)
(*     sendWithModelFallback, sendWithSingleModel and the administrative   *)
(*     operations;                                                         *)
(*   - ChatService: processMessage and regenerateResponse, which save what *)
(*     the dispatcher returns to ChatRepository.                           *)
(* PoolSpec drives the pool alone by arbitrary sequences of getRotatedKey  *)
(* and markKeyAsInvalid; Spec drives the dispatcher, which uses the pool,  *)
(* by sequential sendChatCompletion calls against a nondeterministic       *)
(* upstream; ConfigSpec runs GroqService.init on arbitrary configuration   *)
(* strings; ConcSpec runs two calling threads and an administrator, one    *)
(* step per access to the fields they share; PoolConcSpec runs two threads *)
(* through the synchronized methods of the pool; KeySpec runs              *)
(* ApiKeyService.init on arbitrary raw values; LiveSpec keeps the calling  *)
(* threads calling under weak fairness; HangSpec adds an upstream that     *)
(* never answers; StreamSpec runs sendChatCompletionStream; ChatSpec runs  *)
(* ChatService.processMessage and regenerateResponse over the dispatcher.  *)
(***************************************************************************)
EXTENDS Integers, Sequences, FiniteSets, TLC

VARIABLES
    availableKeys,      \* ApiKeyService.availableKeys: list, duplicates kept
    keyUsageTracker,    \* ApiKeyService.keyUsageTracker, in iteration order
    retired,            \* history: keys passed to a completed markKeyAsInvalid
    returned,           \* history: results of the direct getRotatedKey calls
    lastOp,             \* history: the last pool / administrative operation
    poolOps,            \* history: number of direct pool operations so far
    modelsConfig,       \* GroqService.modelsConfig, as injected
    availableModels,    \* GroqService.availableModels
    fallbackEnabled,    \* GroqService.fallbackEnabled
    maxAttemptsPerModel, \* GroqService.maxAttemptsPerModel
    currentModelIndex,  \* GroqService.currentModelIndex (0-based, as in Java)
    modelFailureCount,  \* GroqService.modelFailureCount
    modelSuccessCount,  \* GroqService.modelSuccessCount
    pc,                 \* position of the (single) caller
    startIndex,         \* sendWithModelFallback local
    totalModelsTried,   \* sendWithModelFallback local
    lastError,          \* sendWithModelFallback local
    attempts,           \* history: the single-model attempts of this call
    outcome,            \* how the last sendChatCompletion call ended
    prev,               \* history: summary of the call before this one
    switched,           \* history: switchToModel moved the cursor since the last call
    startKeyCount,      \* history: getAvailableKeyCount() when the call started
    attemptsMade,       \* history: attempts made over all calls
    adminOps,           \* history: administrative operations since the last call
    tpc,                \* per thread: position in sendChatCompletion
    tStart,             \* per thread: sendWithModelFallback's startIndex
    tTried,             \* per thread: sendWithModelFallback's totalModelsTried
    tModel,             \* per thread: sendWithModelFallback's currentModel
    tRead,              \* per thread: the value read for a pending update, else 0
    tAttempts,          \* history, per thread: the attempts of its current call
    tOutcome,           \* history, per thread: how its last call ended
    apc,                \* position of the administrator
    resetPos,           \* resetFailureCounts in progress: models already reset
    lock,               \* the thread inside a synchronized method of the pool
    ppc,                \* per thread: position in getRotatedKey / markKeyAsInvalid
    pArg,               \* per thread: markKeyAsInvalid's apiKey
    pKey,               \* per thread: getRotatedKey's leastUsedKey
    pRead,              \* per thread: the requestCount read by requestCount++
    retiredTotal,       \* history: the counters of the entries removed so far
    allRawKeys,         \* ApiKeyService.init's local allRawKeys, while init runs
    initialized,        \* ApiKeyService.init has run
    chats,              \* the rows of ChatRepository, a row's id its position
    chatCall            \* the ChatService call in progress, else op "none"

poolVars == <<availableKeys, keyUsageTracker>>
poolHist == <<retired, returned, lastOp, poolOps>>
dispVars == <<modelsConfig, availableModels, fallbackEnabled,
              maxAttemptsPerModel, currentModelIndex, modelFailureCount,
              modelSuccessCount>>
callVars == <<pc, startIndex, totalModelsTried, lastError, attempts, outcome,
              prev, switched, startKeyCount, attemptsMade, adminOps>>
concVars == <<tpc, tStart, tTried, tModel, tRead, tAttempts, tOutcome,
              apc, resetPos>>
lockVars == <<lock, ppc, pArg, pKey, pRead, retiredTotal>>
initVars == <<allRawKeys, initialized>>
chatVars == <<chats, chatCall>>
vars == <<poolVars, poolHist, dispVars, callVars, concVars, lockVars,
          initVars, chatVars>>

-----------------------------------------------------------------------------
(* Bounds of the model *)

\* most rows ChatRepository comes to hold
MaxChats == 2

\* longest list of valid keys that initialization inserts
MaxKeys == 3
\* number of direct pool operations explored by PoolSpec
MaxPoolOps == 6
\* largest number of configured models
MaxModels == 3
\* single-model attempts explored by Spec, over all calls
MaxAttempts == 4
\* administrative operations explored between two calls
MaxAdminOps == 1
\* longest configuration string explored by ConfigSpec, in pieces
MaxConfigLen == 4
\* largest number of configured models in ConcSpec
MaxConcModels == 2
\* value at which LiveSpec holds a failure counter
MaxCount == 1
\* largest number of raw values over all sources of credentials
MaxRawKeys == 2

-----------------------------------------------------------------------------
(* Credentials and the ConcurrentHashMap that tracks their usage *)

\* Java null
Null == "null"

\* the credentials the model draws from; k1 and kA hash to the same bin
Keys == {"k1", "k2", "kA"}

\* the UTF-16 code units of each key string; a string that is no credential
\* stands as one character
KeyChars(k) ==
    CASE k = "k1" -> <<107, 49>>
      [] k = "k2" -> <<107, 50>>
      [] k = "kA" -> <<107, 65>>
      [] OTHER -> <<63>>

RECURSIVE BitXor(_, _)
BitXor(a, b) ==
    IF a = 0 THEN b
    ELSE IF b = 0 THEN a
    ELSE (((a % 2) + (b % 2)) % 2) + (2 * BitXor(a \div 2, b \div 2))

\* java.lang.String.hashCode, h = 31 * h + c in 32-bit arithmetic, kept as
\* its two 16-bit halves <<high, low>>
RECURSIVE StringHashCode(_)
StringHashCode(chars) ==
    IF chars = <<>> THEN <<0, 0>>
    ELSE LET h == StringHashCode(SubSeq(chars, 1, Len(chars) - 1))
             low == (31 * h[2]) + chars[Len(chars)]
         IN <<((31 * h[1]) + (low \div 65536)) % 65536, low % 65536>>

\* ConcurrentHashMap.spread: (h ^ (h >>> 16)) & HASH_BITS, the low 16 bits
\* of it (the table is far shorter than 2^16)
SpreadHash(h) == BitXor(h[2], h[1])

\* default table length of new ConcurrentHashMap<>()
TableSize == 16

\* the bin a key lands in: (n - 1) & spread(key.hashCode())
TableIndex(k) == SpreadHash(StringHashCode(KeyChars(k))) % TableSize

\* new ApiKeyUsage(): requestCount = 0
NewApiKeyUsage(k) == [key |-> k, requestCount |-> 0]

TrackerKeys(tracker) == {tracker[i].key : i \in 1..Len(tracker)}

\* keyUsageTracker.put(k, new ApiKeyUsage()): an existing key keeps its place
\* and gets the fresh value; a new key goes to the tail of its bin, and the
\* map iterates bin by bin.
TrackerPut(tracker, k) ==
    IF k \in TrackerKeys(tracker)
    THEN [i \in 1..Len(tracker) |->
             IF tracker[i].key = k THEN NewApiKeyUsage(k) ELSE tracker[i]]
    ELSE LET p == Cardinality({i \in 1..Len(tracker) :
                                  TableIndex(tracker[i].key) <= TableIndex(k)})
         IN SubSeq(tracker, 1, p) \o <<NewApiKeyUsage(k)>>
                \o SubSeq(tracker, p + 1, Len(tracker))

\* init, lines 112-117: every valid key is appended to availableKeys and put
\* into keyUsageTracker, with no de-duplication across the sources
RECURSIVE InitTracker(_)
InitTracker(validKeys) ==
    IF validKeys = <<>> THEN <<>>
    ELSE TrackerPut(InitTracker(SubSeq(validKeys, 1, Len(validKeys) - 1)),
                    validKeys[Len(validKeys)])

\* the lists of valid keys initialization can produce
KeyLists == UNION {[1..n -> Keys] : n \in 0..MaxKeys}

\* the same, over the two keys the dispatcher is run with
DispatcherKeyLists == UNION {[1..n -> {"k1", "k2"}] : n \in 0..MaxKeys}

\* List.remove(Object): removes the first occurrence only
RemoveFirst(s, x) ==
    IF \E i \in 1..Len(s) : s[i] = x
    THEN LET i == CHOOSE j \in 1..Len(s) :
                      s[j] = x /\ \A h \in 1..(j - 1) : s[h] # x
         IN SubSeq(s, 1, i - 1) \o SubSeq(s, i + 1, Len(s))
    ELSE s

\* Map.remove(key)
TrackerRemove(tracker, k) == SelectSeq(tracker, LAMBDA e : e.key # k)

\* mutant: the first entry whatever its count
MinIndex_AlwaysFirst(tracker) == 1

\* mutant: the last of the entries with the least count
MinIndex_LastMinimal(tracker) ==
    CHOOSE i \in 1..Len(tracker) :
        /\ \A j \in 1..Len(tracker) :
              tracker[i].requestCount <= tracker[j].requestCount
        /\ \A j \in (i + 1)..Len(tracker) :
              tracker[j].requestCount > tracker[i].requestCount

\* entrySet().stream().min(comparingInt(requestCount)): the first entry, in
\* iteration order, among those with the least count
MinIndex(tracker) ==
    CHOOSE i \in 1..Len(tracker) :
        /\ \A j \in 1..Len(tracker) :
              tracker[i].requestCount <= tracker[j].requestCount
        /\ \A j \in 1..(i - 1) :
              tracker[j].requestCount > tracker[i].requestCount

\* lines 184-187: the least used key, or availableKeys.get(0) when the
\* tracker is empty
LeastUsedKey(avail, tracker) ==
    IF tracker # <<>> THEN tracker[MinIndex(tracker)].key ELSE avail[1]

\* ApiKeyUsage.incrementRequestCount on the entry of k
IncrementRequestCount(tracker, k) ==
    [i \in 1..Len(tracker) |->
        IF tracker[i].key = k
        THEN [tracker[i] EXCEPT !.requestCount = @ + 1]
        ELSE tracker[i]]

\* getRotatedKey: the key handed out and the tracker afterwards.  With a key
\* in availableKeys but no entry in the tracker, keyUsageTracker.get returns
\* null, the increment throws, and the catch block returns availableKeys.get(0).
GetRotatedKey(avail, tracker) ==
    IF avail = <<>>
    THEN [key |-> Null, tracker |-> tracker]
    ELSE LET leastUsedKey == LeastUsedKey(avail, tracker)
         IN IF leastUsedKey \in TrackerKeys(tracker)
            THEN [key |-> leastUsedKey,
                  tracker |-> IncrementRequestCount(tracker, leastUsedKey)]
            ELSE [key |-> avail[1], tracker |-> tracker]

\* mutant: only the usage record is removed, the list keeps the key
MarkKeyAsInvalid_UsageOnly(avail, tracker, apiKey) ==
    IF apiKey # Null
    THEN [availableKeys |-> avail, tracker |-> TrackerRemove(tracker, apiKey)]
    ELSE [availableKeys |-> avail, tracker |-> tracker]

\* markKeyAsInvalid: the list and the tracker afterwards
MarkKeyAsInvalid(avail, tracker, apiKey) ==
    IF apiKey # Null
    THEN [availableKeys |-> RemoveFirst(avail, apiKey),
          tracker |-> TrackerRemove(tracker, apiKey)]
    ELSE [availableKeys |-> avail, tracker |-> tracker]

GetAvailableKeyCount(avail) == Len(avail)

HasApiKeys(avail) == avail # <<>>

RequestCount(tracker, k) ==
    LET i == CHOOSE j \in 1..Len(tracker) : tracker[j].key = k
    IN tracker[i].requestCount


-----------------------------------------------------------------------------
(* The upstream completion endpoint *)

\* a 200 response whose body is a completion with the given content
Completion(c) == [status |-> 200, kind |-> "completion", text |-> c]

\* a 200 response whose body is not a completion document
Garbage == [status |-> 200, kind |-> "garbage", text |-> "<html>"]

Unauthorized == [status |-> 401, kind |-> "error", text |-> "invalid api key"]

Decommissioned ==
    [status |-> 500, kind |-> "error", text |-> "model_decommissioned"]

RateLimited == [status |-> 429, kind |-> "error", text |-> "rate limit reached"]

\* the request failed without a response (connection error, timeout)
Unreachable == [status |-> 0, kind |-> "exception", text |-> "Connection refused"]

\* no request was issued
NoRequest == [status |-> 0, kind |-> "none", text |-> ""]

Contents == {"hello", "bye"}

Responses ==
    {Completion(c) : c \in Contents}
        \cup {Garbage, Unauthorized, Decommissioned, RateLimited, Unreachable}

\* String.contains on the error bodies above
Contains(text, marker) ==
    <<text, marker>> \in {<<"model_decommissioned", "model_decommissioned">>,
                          <<"model_decommissioned", "decommissioned">>}

-----------------------------------------------------------------------------
(* GroqService *)

ModelNames == <<"m1", "m2", "m3", "m4", "m5">>

ModelSet(models) == {models[i] : i \in 1..Len(models)}

\* A configuration string is the sequence of its pieces: a comma, a blank,
\* or a run of other characters.
ConfigAlphabet == {"a", "b", ",", " "}

\* String.trim strips the characters up to U+0020 at both ends
IsWhitespace(c) == c = " "

RECURSIVE TrimLeft(_)
TrimLeft(cs) ==
    IF cs # <<>> /\ IsWhitespace(cs[1]) THEN TrimLeft(Tail(cs)) ELSE cs

RECURSIVE TrimRight(_)
TrimRight(cs) ==
    IF cs # <<>> /\ IsWhitespace(cs[Len(cs)])
    THEN TrimRight(SubSeq(cs, 1, Len(cs) - 1))
    ELSE cs

Trim(cs) == TrimRight(TrimLeft(cs))

\* the java.lang.String made of the pieces
RECURSIVE Str(_)
Str(cs) == IF cs = <<>> THEN "" ELSE cs[1] \o Str(Tail(cs))

\* the substrings around every comma, the empty ones included
RECURSIVE SplitAll(_)
SplitAll(cs) ==
    IF \E i \in 1..Len(cs) : cs[i] = ","
    THEN LET i == CHOOSE j \in 1..Len(cs) :
                      cs[j] = "," /\ \A h \in 1..(j - 1) : cs[h] # ","
         IN <<SubSeq(cs, 1, i - 1)>> \o SplitAll(SubSeq(cs, i + 1, Len(cs)))
    ELSE <<cs>>

RECURSIVE DropTrailingEmpty(_)
DropTrailingEmpty(parts) ==
    IF parts # <<>> /\ parts[Len(parts)] = <<>>
    THEN DropTrailingEmpty(SubSeq(parts, 1, Len(parts) - 1))
    ELSE parts

\* String.split(","): the string itself when it holds no comma, otherwise the
\* substrings around the commas with the trailing empty ones removed
Split(cs) ==
    IF \A i \in 1..Len(cs) : cs[i] # ","
    THEN <<cs>>
    ELSE DropTrailingEmpty(SplitAll(cs))

\* mutant: the entries are trimmed but duplicates are kept
RECURSIVE UniqueModels_NoDedup(_)
UniqueModels_NoDedup(parts) ==
    IF parts = <<>> THEN <<>>
    ELSE Append(UniqueModels_NoDedup(SubSeq(parts, 1, Len(parts) - 1)),
                Str(Trim(parts[Len(parts)])))

\* lines 45-49: each entry is trimmed and added to a LinkedHashSet, which
\* keeps the first occurrence of an element and the order of insertion
RECURSIVE UniqueModels(_)
UniqueModels(parts) ==
    IF parts = <<>> THEN <<>>
    ELSE LET before == UniqueModels(SubSeq(parts, 1, Len(parts) - 1))
             model == Str(Trim(parts[Len(parts)]))
         IN IF model \in ModelSet(before) THEN before
            ELSE Append(before, model)

\* lines 52-59
DefaultModels ==
    <<"llama-3.3-70b-versatile", "llama-3.1-8b-instant", "llama3-70b-8192",
      "llama3-8b-8192", "mixtral-8x7b-32768">>

\* line 19: the value injected when groq.api.models is not set
DefaultModelsConfig ==
    <<"llama-3.3-70b-versatile", ",", "llama-3.3-70b-versatile", ",",
      "llama-3.1-8b-instant", ",", "llama3-70b-8192", ",", "llama3-8b-8192",
      ",", "mixtral-8x7b-32768">>

\* lines 42-60: the model list init builds from the configuration string
\* (never null: a value is always injected, the one of line 19 when the
\* property is not set)
InitModels(config) ==
    IF Trim(config) # <<>>
    THEN UniqueModels(Split(config))
    ELSE DefaultModels

\* the configuration naming the first n of ModelNames; with n = 0 the string
\* "," that names none
RECURSIVE ConfigOfModels(_)
ConfigOfModels(n) ==
    IF n = 0 THEN <<",">>
    ELSE IF n = 1 THEN <<ModelNames[1]>>
    ELSE ConfigOfModels(n - 1) \o <<",", ModelNames[n]>>

\* line 27: the value of groq.api.fallback.max-attempts when it is not set
DefaultMaxAttemptsPerModel == 2

\* the values of groq.api.fallback.max-attempts the concurrent callers are
\* run with
MaxAttemptsValues == {1, DefaultMaxAttemptsPerModel}

\* the configurations the dispatcher is run with
DispatcherConfigs == {ConfigOfModels(n) : n \in 0..MaxModels}

\* the configuration of P6
ExampleConfig == <<"a", ",", "a", ",", "b", ",", " ", "b", " ", ",", "a">>

\* the configurations init is explored with: every string of at most
\* MaxConfigLen pieces, the example, and the injected default
Configs ==
    UNION {[1..n -> ConfigAlphabet] : n \in 0..MaxConfigLen}
        \cup {ExampleConfig, DefaultModelsConfig}

\* Arrays.toString
RECURSIVE JoinNames(_)
JoinNames(models) ==
    IF Len(models) = 0 THEN <<>>
    ELSE IF Len(models) = 1 THEN <<models[1]>>
    ELSE <<models[1], ", ">> \o JoinNames(Tail(models))

ArraysToString(models) == <<"[">> \o JoinNames(models) \o <<"]">>

\* messages are sequences of their parts; + is \o
NoKeyMessage == <<"No valid API key available">>

NoModelsMessage == <<"No models configured in GroqService">>

\* lines 161-165
ApiErrorMessage(specificModel, error) ==
    IF Contains(error, "model_decommissioned") \/ Contains(error, "decommissioned")
    THEN <<"MODEL_DECOMMISSIONED: ", specificModel, " - ", error>>
    ELSE <<"API Error: ", error>>

\* lines 173-176
CallFailedMessage(specificModel, cause) ==
    <<"Failed to call Groq API with model '", specificModel, "': ">> \o cause

\* the markers isModelSpecificError looks for, lines 183-187
ModelSpecificMarkers ==
    {"model_decommissioned", "decommissioned", "model not found",
     "invalid model", "model does not exist"}

\* toLowerCase().contains(marker) on the parts messages are made of
LowerContains(part, marker) ==
    /\ part \in {"model_decommissioned", "MODEL_DECOMMISSIONED: "}
    /\ marker \in {"model_decommissioned", "decommissioned"}

\* isModelSpecificError, lines 179-188
IsModelSpecificError(errorMessage) ==
    \E i \in 1..Len(errorMessage), marker \in ModelSpecificMarkers :
        LowerContains(errorMessage[i], marker)

\* mutant: whatever the body is, it is returned as the content
ExtractContentFromResponse_Lenient(resp) ==
    [ok |-> TRUE, content |-> resp.text, error |-> <<>>]

\* extractContentFromResponse: the content, or the parse failure
ExtractContentFromResponse(resp) ==
    IF resp.kind = "completion"
    THEN [ok |-> TRUE, content |-> resp.text, error |-> <<>>]
    ELSE [ok |-> FALSE, content |-> "",
          error |-> <<"Failed to parse API response: ", resp.text>>]

\* mutant: the error of the last attempt is thrown as it is
AllModelsFailedMessage_LastOnly(models, last) == last

\* mutant: the aggregate error without the model list
AllModelsFailedMessage_NoList(models, last) ==
    <<"All Groq models failed.">> \o <<"\nLast error: ">> \o last

\* lines 128-130
AllModelsFailedMessage(models, last) ==
    <<"All Groq models failed. Models tried: ">> \o ArraysToString(models)
        \o <<"\nLast error: ">> \o last

\* mutant: no status retires the key
RetiresKey_Never(resp) == FALSE

\* mutant: an error body with the decommissioned marker retires the key too
RetiresKey_OnMarker(resp) ==
    resp.status = 401 \/ Contains(resp.text, "decommissioned")

\* mutant: every error status retires the key
RetiresKey_AnyError(resp) == resp.status >= 400

\* onStatus, line 156: only 401 retires the key
RetiresKey(resp) == resp.status = 401

IsErrorStatus(resp) == resp.status >= 400 /\ resp.status <= 599

\* mutant: the null check of lines 136-138 is missing
SendWithSingleModel_NoNullCheck(avail, tracker, specificModel, resp) ==
    LET got == GetRotatedKey(avail, tracker)
        ex == ExtractContentFromResponse(resp)
    IN [ok |-> ex.ok, content |-> ex.content,
        error |-> IF ex.ok THEN <<>>
                  ELSE CallFailedMessage(specificModel, ex.error),
        key |-> got.key, resp |-> resp,
        availableKeys |-> avail, tracker |-> got.tracker]

\* sendWithSingleModel against an upstream that answers resp: the result
\* (content or exception message), the key used and the pool afterwards
SendWithSingleModel(avail, tracker, specificModel, resp) ==
    LET got == GetRotatedKey(avail, tracker)
        apiKey == got.key
    IN IF apiKey = Null
       THEN [ok |-> FALSE, content |-> "", error |-> NoKeyMessage,
             key |-> Null, resp |-> NoRequest,
             availableKeys |-> avail, tracker |-> got.tracker]
       ELSE IF IsErrorStatus(resp)
       THEN LET after == IF RetiresKey(resp)
                         THEN MarkKeyAsInvalid(avail, got.tracker, apiKey)
                         ELSE [availableKeys |-> avail, tracker |-> got.tracker]
            IN [ok |-> FALSE, content |-> "",
                error |-> CallFailedMessage(specificModel,
                              ApiErrorMessage(specificModel, resp.text)),
                key |-> apiKey, resp |-> resp,
                availableKeys |-> after.availableKeys, tracker |-> after.tracker]
       ELSE IF resp.kind = "exception"
       THEN [ok |-> FALSE, content |-> "",
             error |-> CallFailedMessage(specificModel, <<resp.text>>),
             key |-> apiKey, resp |-> resp,
             availableKeys |-> avail, tracker |-> got.tracker]
       ELSE LET ex == ExtractContentFromResponse(resp)
            IN [ok |-> ex.ok, content |-> ex.content,
                error |-> IF ex.ok THEN <<>>
                          ELSE CallFailedMessage(specificModel, ex.error),
                key |-> apiKey, resp |-> resp,
                availableKeys |-> avail, tracker |-> got.tracker]

\* mutant: the cursor is not advanced
NextModelIndex_NoAdvance(index, modelCount) == index

\* line 114
NextModelIndex(index, modelCount) == (index + 1) % modelCount

\* mutant: a success advances the cursor too
CursorAfterAttempt_AlwaysAdvance(ok, index, modelCount) ==
    NextModelIndex(index, modelCount)

\* the cursor after an attempt: left alone by a success (lines 96-101),
\* advanced by a failure (line 114)
CursorAfterAttempt(ok, index, modelCount) ==
    IF ok THEN index ELSE NextModelIndex(index, modelCount)

\* mutant: a success leaves the failure counter as it is
FailureCountAfter_NoReset(ok, count) == IF ok THEN count ELSE count + 1

\* the failure counter of the attempted model after the attempt: 0 after a
\* success (line 99), one more after a failure (line 105)
FailureCountAfter(ok, count) == IF ok THEN 0 ELSE count + 1

\* mutant: the loop gives up one model early
LoopEnds_OneShort(cursor, start, tried, modelCount) ==
    ~(tried < modelCount - 1)

\* mutant: the loop bound is off by one and the cursor test is missing
LoopEnds_OffByOne(cursor, start, tried, modelCount) ==
    ~(tried <= modelCount)

\* lines 116-118 and 126: the loop ends after a failure when the cursor is
\* back at the start or every model has been tried
LoopEnds(cursor, start, tried, modelCount) ==
    cursor = start \/ ~(tried < modelCount)

\* lines 116-124: after a failure Thread.sleep(500) runs when the cursor is
\* not back at the start
SleepsAfterFailure(cursor, start) == cursor # start

\* getCurrentModel
GetCurrentModel(models, index) ==
    IF Len(models) > index THEN models[index + 1] ELSE "No model available"

NoOutcome == [kind |-> "none", content |-> "", error |-> <<>>]

Returned(c) == [kind |-> "returned", content |-> c, error |-> <<>>]

Raised(msg) == [kind |-> "raised", content |-> "", error |-> msg]

\* the record of one attempt, with what isModelSpecificError says of its
\* error message (the loop logs it, lines 110-112)
AttemptRecord(model, res, slept) ==
    [model |-> model, key |-> res.key, resp |-> res.resp, ok |-> res.ok,
     error |-> res.error, slept |-> slept,
     modelSpecific |-> IsModelSpecificError(res.error)]

FailedModels(atts) == {atts[i].model : i \in {j \in 1..Len(atts) : ~atts[j].ok}}

SucceededModel(atts) ==
    IF atts # <<>> /\ atts[Len(atts)].ok THEN atts[Len(atts)].model ELSE Null

-----------------------------------------------------------------------------
(* Initial states *)

\* the threads that call the dispatcher concurrently, one call each, next
\* to an administrator who makes one call of switchToModel or
\* resetFailureCounts
Threads == {"t1", "t2"}

ThreadsAtRest ==
    /\ tpc = [t \in Threads |-> "idle"]
    /\ tStart = [t \in Threads |-> 0]
    /\ tTried = [t \in Threads |-> 0]
    /\ tModel = [t \in Threads |-> Null]
    /\ tRead = [t \in Threads |-> 0]
    /\ tAttempts = [t \in Threads |-> <<>>]
    /\ tOutcome = [t \in Threads |-> "none"]
    /\ apc = "idle"
    /\ resetPos = 0
    /\ lock = Null
    /\ ppc = [t \in Threads |-> "idle"]
    /\ pArg = [t \in Threads |-> Null]
    /\ pKey = [t \in Threads |-> Null]
    /\ pRead = [t \in Threads |-> 0]
    /\ retiredTotal = 0
    /\ chats = <<>>
    /\ chatCall = [op |-> "none", chatId |-> 0, userId |-> Null]

PoolInitWith(ks) ==
    /\ allRawKeys = <<>>
    /\ initialized = TRUE
    /\ availableKeys = ks
    /\ keyUsageTracker = InitTracker(ks)
    /\ retired = {}
    /\ returned = <<>>
    /\ lastOp = [op |-> "none", arg |-> Null, result |-> Null]
    /\ poolOps = 0

\* the state init leaves, lines 42-66, with the cursor and the caller at rest
DispatcherInitWith(config, fb, maxAttempts) ==
    /\ modelsConfig = config
    /\ maxAttemptsPerModel = maxAttempts
    /\ availableModels = InitModels(config)
    /\ fallbackEnabled = fb
    /\ currentModelIndex = 0
    /\ modelFailureCount = [m \in ModelSet(InitModels(config)) |-> 0]
    /\ modelSuccessCount = [m \in ModelSet(InitModels(config)) |-> 0]
    /\ pc = "idle"
    /\ startIndex = 0
    /\ totalModelsTried = 0
    /\ lastError = <<>>
    /\ attempts = <<>>
    /\ outcome = NoOutcome
    /\ prev = [kind |-> "none", model |-> Null, failed |-> {}, switched |-> FALSE]
    /\ switched = FALSE
    /\ startKeyCount = 0
    /\ attemptsMade = 0
    /\ adminOps = 0
    /\ ThreadsAtRest

Init ==
    \E ks \in DispatcherKeyLists, config \in DispatcherConfigs, fb \in BOOLEAN :
        PoolInitWith(ks)
            /\ DispatcherInitWith(config, fb, DefaultMaxAttemptsPerModel)

PoolInit ==
    \E ks \in KeyLists :
        PoolInitWith(ks)
            /\ DispatcherInitWith(ConfigOfModels(1), TRUE,
                                  DefaultMaxAttemptsPerModel)

-----------------------------------------------------------------------------
(* The pool on its own: direct calls of getRotatedKey and markKeyAsInvalid *)

Acquire ==
    /\ poolOps < MaxPoolOps
    /\ LET got == GetRotatedKey(availableKeys, keyUsageTracker)
       IN /\ keyUsageTracker' = got.tracker
          /\ returned' = Append(returned, got.key)
          /\ lastOp' = [op |-> "getRotatedKey", arg |-> Null, result |-> got.key]
    /\ poolOps' = poolOps + 1
    /\ UNCHANGED <<availableKeys, retired, dispVars, callVars, concVars, lockVars, initVars, chatVars>>

Retire(c) ==
    /\ poolOps < MaxPoolOps
    /\ LET after == MarkKeyAsInvalid(availableKeys, keyUsageTracker, c)
       IN /\ availableKeys' = after.availableKeys
          /\ keyUsageTracker' = after.tracker
    /\ retired' = IF c = Null THEN retired ELSE retired \cup {c}
    /\ lastOp' = [op |-> "markKeyAsInvalid", arg |-> c, result |-> Null]
    /\ poolOps' = poolOps + 1
    /\ UNCHANGED <<returned, dispVars, callVars, concVars, lockVars, initVars, chatVars>>

RetireAny == \E c \in Keys \cup {Null} : Retire(c)

PoolNext == Acquire \/ RetireAny

PoolSpec == PoolInit /\ [][PoolNext]_vars

-----------------------------------------------------------------------------
(* ApiKeyService.init: from the raw values of the configured sources to the  *)
(* pool.  A raw value is the sequence of its pieces, a blank or a run of     *)
(* other characters.  k1, k2 and kA name credentials of the form gsk_        *)
(* followed by 52 letters and digits; the other strings are named after      *)
(* what they are, and the operators below say of each string what the        *)
(* tests of the code find in it.                                             *)

\* line 172: the least length of a credential
MinKeyLength == 40

\* line 153: the length above which a gsk_ string is taken as plain
PlainKeyLength == 40

\* line 225: the length above which decryptApiKey returns a gsk_ string as is
FallbackKeyLength == 30

\* String.startsWith("gsk_")
StartsWithGsk(s) == s \in Keys \cup {"gsk_short", "gsk_bad-char"}

\* String.length
KeyLength(s) ==
    CASE s \in Keys -> 56
      [] s = "gsk_short" -> 39
      [] s = "gsk_bad-char" -> 56
      [] s = "sk-plain" -> 56
      [] s \in {"encK1", "encJunk", "b64K2"} -> 88
      [] s = "b64odd" -> 5
      [] s = "junk" -> 12
      [] OTHER -> 0

\* GROQ_KEY_PATTERN, line 20: ^gsk_[a-zA-Z0-9]+$
MatchesKeyPattern(s) == s \in Keys \cup {"gsk_short"}

\* line 159: ^[A-Za-z0-9+/]+={0,2}$
MatchesBase64Pattern(s) == s \in {"encK1", "encJunk", "b64K2", "b64odd"}

\* Base64.getDecoder().decode(s) returns: the length of b64odd is not one
\* the decoder accepts
Base64Decodes(s) == s \in {"encK1", "encJunk", "b64K2"}

\* new String(Base64.getDecoder().decode(s), "UTF-8")
Base64Text(s) == IF s = "b64K2" THEN "k2" ELSE "junk"

\* lines 213-221: what the cipher makes of s with the configured secret, or
\* Null when doFinal throws (b64K2 is no ciphertext of that secret)
CipherText(s) ==
    CASE s = "encK1" -> "k1"
      [] s = "encJunk" -> "junk"
      [] OTHER -> Null

\* isProbablyEncrypted, lines 150-168
IsProbablyEncrypted(key) ==
    IF StartsWithGsk(key) /\ KeyLength(key) > PlainKeyLength THEN FALSE
    ELSE MatchesBase64Pattern(key) /\ Base64Decodes(key)

\* decryptApiKey, lines 210-239: the plain text, or Null when it throws
DecryptApiKey(encryptedKey) ==
    IF CipherText(encryptedKey) # Null THEN CipherText(encryptedKey)
    ELSE IF StartsWithGsk(encryptedKey)
            /\ KeyLength(encryptedKey) > FallbackKeyLength
    THEN encryptedKey
    ELSE IF Base64Decodes(encryptedKey) THEN Base64Text(encryptedKey)
    ELSE Null

\* mutant: the prefix alone makes a key valid
IsValidGroqKey_PrefixOnly(key) == key # Null /\ StartsWithGsk(key)

\* isValidGroqKey, lines 170-175
IsValidGroqKey(key) ==
    /\ key # Null
    /\ KeyLength(key) >= MinKeyLength
    /\ StartsWithGsk(key)
    /\ MatchesKeyPattern(key)

\* lines 97-111: the key a raw value resolves to, Null when decryptApiKey
\* throws (the catch of line 124 then skips the value)
ResolveKey(rawKey) ==
    LET key == Str(Trim(rawKey))
    IN IF IsProbablyEncrypted(key) THEN DecryptApiKey(key) ELSE key

\* mutant: a value that does not resolve to a valid key ends the loop
RECURSIVE ProcessKeys_StopAtInvalid(_)
ProcessKeys_StopAtInvalid(raws) ==
    IF raws = <<>> THEN <<>>
    ELSE IF IsValidGroqKey(ResolveKey(raws[1]))
    THEN <<ResolveKey(raws[1])>> \o ProcessKeys_StopAtInvalid(Tail(raws))
    ELSE <<>>

\* lines 92-127: the keys added to availableKeys, in order
RECURSIVE ProcessKeys(_)
ProcessKeys(raws) ==
    IF raws = <<>> THEN <<>>
    ELSE LET before == ProcessKeys(SubSeq(raws, 1, Len(raws) - 1))
             decryptedKey == ResolveKey(raws[Len(raws)])
         IN IF Trim(raws[Len(raws)]) = <<>> THEN before
            ELSE IF IsValidGroqKey(decryptedKey)
            THEN Append(before, decryptedKey)
            ELSE before

\* lines 49-50, 57-58, 65-66, 73-74 and 83-84: a value that is not blank is
\* added trimmed
RECURSIVE CollectRawKeys(_)
CollectRawKeys(values) ==
    IF values = <<>> THEN <<>>
    ELSE IF Trim(values[1]) = <<>> THEN CollectRawKeys(Tail(values))
    ELSE <<Trim(values[1])>> \o CollectRawKeys(Tail(values))

\* the raw values the sources are explored with
RawValues ==
    {<<>>, <<" ">>, <<"k1">>, <<" ", "k1", " ">>, <<"k2">>, <<"gsk_short">>,
     <<"gsk_bad-char">>, <<"sk-plain">>, <<"encK1">>, <<"encJunk">>,
     <<"b64K2">>, <<"b64odd">>}

\* the values of all sources in the order init reads them
SourceValues == UNION {[1..n -> RawValues] : n \in 0..MaxRawKeys}

\* init at line 89: the raw values are collected, the pool is still empty
KeyInit ==
    \E values \in SourceValues :
        /\ allRawKeys = CollectRawKeys(values)
        /\ initialized = FALSE
        /\ availableKeys = <<>>
        /\ keyUsageTracker = <<>>
        /\ retired = {}
        /\ returned = <<>>
        /\ lastOp = [op |-> "none", arg |-> Null, result |-> Null]
        /\ poolOps = 0
        /\ DispatcherInitWith(ConfigOfModels(1), TRUE,
                              DefaultMaxAttemptsPerModel)

\* init from line 91 to its end, line 148
PoolPostConstruct ==
    /\ ~initialized
    /\ availableKeys' = ProcessKeys(allRawKeys)
    /\ keyUsageTracker' = InitTracker(ProcessKeys(allRawKeys))
    /\ lastOp' = [op |-> "init", arg |-> allRawKeys, result |-> "ok"]
    /\ allRawKeys' = <<>>
    /\ initialized' = TRUE
    /\ UNCHANGED <<retired, returned, poolOps, dispVars, callVars, concVars,
                   lockVars, chatVars>>

\* the pool is used once init has run
InitializedAcquire == initialized /\ Acquire

InitializedRetire == initialized /\ RetireAny

KeyNext == PoolPostConstruct \/ InitializedAcquire \/ InitializedRetire

KeySpec == KeyInit /\ [][KeyNext]_vars


-----------------------------------------------------------------------------
(* The pool called by concurrent threads.  getRotatedKey and                 *)
(* markKeyAsInvalid are synchronized methods of the one ApiKeyService: a     *)
(* thread enters when the monitor is free and takes one step per access to   *)
(* availableKeys and keyUsageTracker until it leaves.                        *)

\* mutant: the methods are not synchronized
MonitorFree_Unsynchronized(holder) == TRUE

\* the synchronized of lines 177 and 202: the monitor can be entered
MonitorFree(holder) == holder = Null

PoolConcInit ==
    \E ks \in DispatcherKeyLists :
        PoolInitWith(ks)
            /\ DispatcherInitWith(ConfigOfModels(1), TRUE,
                                  DefaultMaxAttemptsPerModel)

\* the variables no step inside the pool changes
PoolFrame == UNCHANGED <<dispVars, callVars, concVars, initVars, chatVars>>

\* the thread returns result from getRotatedKey and leaves the monitor
PReturn(t, result) ==
    /\ returned' = Append(returned, result)
    /\ lastOp' = [op |-> "getRotatedKey", arg |-> Null, result |-> result]
    /\ lock' = IF lock = t THEN Null ELSE lock
    /\ ppc' = [ppc EXCEPT ![t] = "idle"]
    /\ pKey' = [pKey EXCEPT ![t] = Null]
    /\ pRead' = [pRead EXCEPT ![t] = 0]

\* the catch block of lines 196-199
CatchResult(avail) == IF avail = <<>> THEN Null ELSE avail[1]

\* getRotatedKey is entered, line 177
PGetEnter(t) ==
    /\ ppc[t] = "idle"
    /\ poolOps < MaxPoolOps
    /\ MonitorFree(lock)
    /\ lock' = t
    /\ ppc' = [ppc EXCEPT ![t] = "isEmpty"]
    /\ poolOps' = poolOps + 1
    /\ UNCHANGED <<poolVars, retired, returned, lastOp, pArg, pKey, pRead,
                   retiredTotal>>
    /\ PoolFrame

\* lines 178-181
PGetIsEmpty(t) ==
    /\ ppc[t] = "isEmpty"
    /\ IF availableKeys = <<>>
       THEN PReturn(t, Null)
       ELSE /\ ppc' = [ppc EXCEPT ![t] = "select"]
            /\ UNCHANGED <<returned, lastOp, lock, pKey, pRead>>
    /\ UNCHANGED <<poolVars, retired, poolOps, pArg, retiredTotal>>
    /\ PoolFrame

\* lines 184-187: the least used key, or availableKeys.get(0), whose
\* IndexOutOfBoundsException ends in the catch block
PGetSelect(t) ==
    /\ ppc[t] = "select"
    /\ IF keyUsageTracker = <<>> /\ availableKeys = <<>>
       THEN PReturn(t, CatchResult(availableKeys))
       ELSE /\ pKey' = [pKey EXCEPT
                           ![t] = LeastUsedKey(availableKeys, keyUsageTracker)]
            /\ ppc' = [ppc EXCEPT ![t] = "incrementRead"]
            /\ UNCHANGED <<returned, lastOp, lock, pRead>>
    /\ UNCHANGED <<poolVars, retired, poolOps, pArg, retiredTotal>>
    /\ PoolFrame

\* line 190: keyUsageTracker.get(leastUsedKey) and the read of requestCount++;
\* without an entry the NullPointerException ends in the catch block
PGetIncrementRead(t) ==
    /\ ppc[t] = "incrementRead"
    /\ IF pKey[t] \in TrackerKeys(keyUsageTracker)
       THEN /\ pRead' = [pRead EXCEPT
                            ![t] = RequestCount(keyUsageTracker, pKey[t])]
            /\ ppc' = [ppc EXCEPT ![t] = "incrementWrite"]
            /\ UNCHANGED <<returned, lastOp, lock, pKey>>
       ELSE PReturn(t, CatchResult(availableKeys))
    /\ UNCHANGED <<poolVars, retired, poolOps, pArg, retiredTotal>>
    /\ PoolFrame

\* lines 190-195: the write of requestCount++ (to an object that is no
\* longer in the map when the entry was removed meanwhile) and the return
PGetIncrementWrite(t) ==
    /\ ppc[t] = "incrementWrite"
    /\ keyUsageTracker' =
          [i \in 1..Len(keyUsageTracker) |->
              IF keyUsageTracker[i].key = pKey[t]
              THEN [keyUsageTracker[i] EXCEPT !.requestCount = pRead[t] + 1]
              ELSE keyUsageTracker[i]]
    /\ PReturn(t, pKey[t])
    /\ UNCHANGED <<availableKeys, retired, poolOps, pArg, retiredTotal>>
    /\ PoolFrame

\* markKeyAsInvalid(c) is entered, line 202
PRetireEnter(t, c) ==
    /\ ppc[t] = "idle"
    /\ poolOps < MaxPoolOps
    /\ MonitorFree(lock)
    /\ lock' = t
    /\ pArg' = [pArg EXCEPT ![t] = c]
    /\ ppc' = [ppc EXCEPT ![t] = "removeKey"]
    /\ poolOps' = poolOps + 1
    /\ UNCHANGED <<poolVars, retired, returned, lastOp, pKey, pRead,
                   retiredTotal>>
    /\ PoolFrame

\* the thread leaves markKeyAsInvalid and the monitor
PRetireReturn(t) ==
    /\ lastOp' = [op |-> "markKeyAsInvalid", arg |-> pArg[t], result |-> Null]
    /\ lock' = IF lock = t THEN Null ELSE lock
    /\ ppc' = [ppc EXCEPT ![t] = "idle"]
    /\ pArg' = [pArg EXCEPT ![t] = Null]

\* lines 203-204: the null check and availableKeys.remove(apiKey)
PRetireRemoveKey(t) ==
    /\ ppc[t] = "removeKey"
    /\ IF pArg[t] = Null
       THEN /\ PRetireReturn(t)
            /\ UNCHANGED availableKeys
       ELSE /\ availableKeys' = RemoveFirst(availableKeys, pArg[t])
            /\ ppc' = [ppc EXCEPT ![t] = "removeUsage"]
            /\ UNCHANGED <<lastOp, lock, pArg>>
    /\ UNCHANGED <<keyUsageTracker, retired, returned, poolOps, pKey, pRead,
                   retiredTotal>>
    /\ PoolFrame

\* lines 205-207: keyUsageTracker.remove(apiKey)
PRetireRemoveUsage(t) ==
    /\ ppc[t] = "removeUsage"
    /\ keyUsageTracker' = TrackerRemove(keyUsageTracker, pArg[t])
    /\ retiredTotal' =
          IF pArg[t] \in TrackerKeys(keyUsageTracker)
          THEN retiredTotal + RequestCount(keyUsageTracker, pArg[t])
          ELSE retiredTotal
    /\ retired' = retired \cup {pArg[t]}
    /\ PRetireReturn(t)
    /\ UNCHANGED <<availableKeys, returned, poolOps, pKey, pRead>>
    /\ PoolFrame

PoolThreadStep(t) ==
    \/ PGetEnter(t)
    \/ PGetIsEmpty(t)
    \/ PGetSelect(t)
    \/ PGetIncrementRead(t)
    \/ PGetIncrementWrite(t)
    \/ \E c \in {"k1", "k2", Null} : PRetireEnter(t, c)
    \/ PRetireRemoveKey(t)
    \/ PRetireRemoveUsage(t)

PoolConcNext == \E t \in Threads : PoolThreadStep(t)

PoolConcSpec == PoolConcInit /\ [][PoolConcNext]_vars



-----------------------------------------------------------------------------
(* GroqService driven by one caller *)

ModelCount == Len(availableModels)

\* sendChatCompletion is entered: lines 73-81, and lines 85-87 of
\* sendWithModelFallback
CallStart ==
    /\ pc \in {"idle", "done"}
    /\ attemptsMade + ModelCount <= MaxAttempts
    /\ prev' = [kind |-> outcome.kind, model |-> SucceededModel(attempts),
                failed |-> FailedModels(attempts), switched |-> switched]
    /\ switched' = FALSE
    /\ adminOps' = 0
    /\ attempts' = <<>>
    /\ startKeyCount' = GetAvailableKeyCount(availableKeys)
    /\ lastOp' = [op |-> "sendChatCompletion", arg |-> Null, result |-> Null]
    /\ IF ModelCount = 0
       THEN /\ pc' = "done"
            /\ outcome' = Raised(NoModelsMessage)
            /\ UNCHANGED <<startIndex, totalModelsTried, lastError>>
       ELSE /\ pc' = IF fallbackEnabled THEN "loop" ELSE "single"
            /\ outcome' = NoOutcome
            /\ lastError' = <<>>
            /\ totalModelsTried' = 0
            /\ startIndex' = currentModelIndex
    /\ UNCHANGED <<poolVars, retired, returned, poolOps, dispVars, attemptsMade,
                   concVars, lockVars, initVars, chatVars>>

\* mutant: sendChatCompletionStream lets the exception through
CallerSees_Rethrow(entry, o) == o

\* how the result of sendWithModelFallback reaches the caller of the entry
\* point: sendChatCompletion passes it on (line 78), the callable of
\* sendChatCompletionStream turns an exception into the text "Error: "
\* followed by its message (lines 208-212)
CallerSees(entry, o) ==
    IF entry = "sendChatCompletionStream" /\ o.kind = "raised"
    THEN [kind |-> "returned", content |-> <<"Error: ">> \o o.error,
          error |-> <<>>]
    ELSE o

\* one pass of the do-while loop of sendWithModelFallback, lines 89-126, and
\* the throw of lines 128-130 when the loop ends
FallbackAttempt(resp) ==
    LET currentModel == availableModels[currentModelIndex + 1]
        res == SendWithSingleModel(availableKeys, keyUsageTracker,
                                   currentModel, resp)
        tried == totalModelsTried + 1
        cursor == CursorAfterAttempt(res.ok, currentModelIndex, ModelCount)
        ends == LoopEnds(cursor, startIndex, tried, ModelCount)
        slept == ~res.ok /\ SleepsAfterFailure(cursor, startIndex)
    IN /\ totalModelsTried' = tried
       /\ availableKeys' = res.availableKeys
       /\ keyUsageTracker' = res.tracker
       /\ retired' = IF res.key # Null /\ RetiresKey(res.resp)
                     THEN retired \cup {res.key} ELSE retired
       /\ attempts' = Append(attempts, AttemptRecord(currentModel, res, slept))
       /\ attemptsMade' = attemptsMade + 1
       /\ IF res.ok
          THEN /\ modelSuccessCount' =
                     [modelSuccessCount EXCEPT ![currentModel] = @ + 1]
               /\ modelFailureCount' =
                     [modelFailureCount EXCEPT
                         ![currentModel] = FailureCountAfter(res.ok, @)]
               /\ currentModelIndex' = cursor
               /\ outcome' = Returned(res.content)
               /\ pc' = "done"
               /\ UNCHANGED lastError
          ELSE /\ lastError' = res.error
               /\ modelFailureCount' =
                     [modelFailureCount EXCEPT
                         ![currentModel] = FailureCountAfter(res.ok, @)]
               /\ currentModelIndex' = cursor
               /\ IF ends
                  THEN /\ outcome' = CallerSees(lastOp.op,
                                         Raised(AllModelsFailedMessage(
                                                   availableModels, res.error)))
                       /\ pc' = "done"
                  ELSE /\ outcome' = NoOutcome
                       /\ pc' = "loop"
               /\ UNCHANGED modelSuccessCount
       /\ UNCHANGED <<returned, lastOp, poolOps, modelsConfig,
                      maxAttemptsPerModel, availableModels,
                      fallbackEnabled, startIndex, prev, switched,
                      startKeyCount, adminOps, concVars, lockVars, initVars, chatVars>>

\* the key comes first: without one no request is issued
UpstreamAnswers ==
    IF GetRotatedKey(availableKeys, keyUsageTracker).key = Null
    THEN {NoRequest} ELSE Responses

Attempt ==
    /\ pc = "loop"
    /\ \E resp \in UpstreamAnswers : FallbackAttempt(resp)

\* fallback disabled, line 80: one sendWithSingleModel with the model at the
\* cursor, its exception passed on to the caller
SingleAttempt ==
    /\ pc = "single"
    /\ \E resp \in UpstreamAnswers :
         LET currentModel == availableModels[currentModelIndex + 1]
             res == SendWithSingleModel(availableKeys, keyUsageTracker,
                                        currentModel, resp)
         IN /\ availableKeys' = res.availableKeys
            /\ keyUsageTracker' = res.tracker
            /\ retired' = IF res.key # Null /\ RetiresKey(res.resp)
                          THEN retired \cup {res.key} ELSE retired
            /\ attempts' = Append(attempts,
                                  AttemptRecord(currentModel, res, FALSE))
            /\ attemptsMade' = attemptsMade + 1
            /\ outcome' = IF res.ok THEN Returned(res.content)
                          ELSE Raised(res.error)
            /\ pc' = "done"
    /\ UNCHANGED <<returned, lastOp, poolOps, dispVars, startIndex,
                   totalModelsTried, lastError, prev, switched, startKeyCount,
                   adminOps, concVars, lockVars, initVars, chatVars>>

\* mutant: a name that is not in the list selects the first model
IndexOfModel_MissIsFirst(models, modelName) ==
    IF \E i \in 1..Len(models) : models[i] = modelName
    THEN (CHOOSE i \in 1..Len(models) :
              models[i] = modelName /\ \A j \in 1..(i - 1) : models[j] # modelName)
         - 1
    ELSE 0

\* the index switchToModel finds, lines 262-268; 0 - 1 when there is none
IndexOfModel(models, modelName) ==
    IF \E i \in 1..Len(models) : models[i] = modelName
    THEN (CHOOSE i \in 1..Len(models) :
              models[i] = modelName /\ \A j \in 1..(i - 1) : models[j] # modelName)
         - 1
    ELSE 0 - 1

\* an administrative operation is explored while another call can follow
AdminEnabled ==
    /\ pc \in {"idle", "done"}
    /\ adminOps < MaxAdminOps
    /\ attemptsMade + ModelCount <= MaxAttempts

SwitchToModel(modelName) ==
    /\ AdminEnabled
    /\ adminOps' = adminOps + 1
    /\ LET i == IndexOfModel(availableModels, modelName)
       IN IF i >= 0
          THEN /\ currentModelIndex' = i
               /\ switched' = TRUE
               /\ lastOp' = [op |-> "switchToModel", arg |-> modelName,
                             result |-> "ok"]
          ELSE /\ lastOp' = [op |-> "switchToModel", arg |-> modelName,
                             result |-> "IllegalArgumentException"]
               /\ UNCHANGED <<currentModelIndex, switched>>
    /\ UNCHANGED <<poolVars, retired, returned, poolOps, modelsConfig, maxAttemptsPerModel,
                   availableModels, fallbackEnabled, modelFailureCount,
                   modelSuccessCount,
                   pc, startIndex, totalModelsTried, lastError, attempts,
                   outcome, prev, startKeyCount, attemptsMade, concVars, lockVars, initVars, chatVars>>

SwitchToAnyModel ==
    \E modelName \in ModelSet(availableModels) \cup {"no-such-model"} :
        SwitchToModel(modelName)

\* mutant: only the first model of the list is reset
ResetCounts_FirstOnly(counts, models) ==
    [m \in DOMAIN counts |->
        IF models # <<>> /\ m = models[1] THEN 0 ELSE counts[m]]

\* lines 275-277: modelFailureCount.put(model, 0) for every model of the list
ResetCounts(counts, models) ==
    [m \in DOMAIN counts \cup ModelSet(models) |->
        IF m \in ModelSet(models) THEN 0 ELSE counts[m]]

ResetFailureCounts ==
    /\ AdminEnabled
    /\ adminOps' = adminOps + 1
    /\ modelFailureCount' = ResetCounts(modelFailureCount, availableModels)
    /\ lastOp' = [op |-> "resetFailureCounts", arg |-> Null, result |-> "ok"]
    /\ UNCHANGED <<poolVars, retired, returned, poolOps, modelsConfig, maxAttemptsPerModel,
                   availableModels, fallbackEnabled, currentModelIndex,
                   modelSuccessCount,
                   pc, startIndex, totalModelsTried, lastError, attempts,
                   outcome, prev, switched, startKeyCount, attemptsMade,
                   concVars, lockVars, initVars, chatVars>>

Next ==
    \/ CallStart
    \/ Attempt
    \/ SingleAttempt
    \/ SwitchToAnyModel
    \/ ResetFailureCounts

Spec == Init /\ [][Next]_vars

-----------------------------------------------------------------------------
(* GroqService.sendChatCompletionStream, one subscription of the Mono it     *)
(* returns after the other                                                   *)

\* sendChatCompletionStream is entered, lines 203-207.  With fallback
\* enabled the callable runs sendWithModelFallback, whose lines 85-90 throw
\* an ArrayIndexOutOfBoundsException on an empty list, caught at line 210;
\* with fallback disabled line 204 reads the model at the cursor and line
\* 217 takes a key, which lastOp keeps for the request
StreamStart ==
    /\ pc \in {"idle", "done"}
    /\ attemptsMade + ModelCount <= MaxAttempts
    /\ prev' = [kind |-> outcome.kind, model |-> SucceededModel(attempts),
                failed |-> FailedModels(attempts), switched |-> switched]
    /\ switched' = FALSE
    /\ adminOps' = 0
    /\ attempts' = <<>>
    /\ startKeyCount' = GetAvailableKeyCount(availableKeys)
    /\ lastError' = <<>>
    /\ totalModelsTried' = 0
    /\ startIndex' = currentModelIndex
    /\ IF ModelCount = 0
       THEN /\ pc' = "done"
            /\ outcome' =
                  CallerSees("sendChatCompletionStream",
                             Raised(<<"Index 0 out of bounds for length 0">>))
            /\ lastOp' = [op |-> "sendChatCompletionStream", arg |-> Null,
                          result |-> Null]
            /\ UNCHANGED keyUsageTracker
       ELSE IF fallbackEnabled
       THEN /\ pc' = "loop"
            /\ outcome' = NoOutcome
            /\ lastOp' = [op |-> "sendChatCompletionStream", arg |-> Null,
                          result |-> Null]
            /\ UNCHANGED keyUsageTracker
       ELSE LET got == GetRotatedKey(availableKeys, keyUsageTracker)
            IN /\ pc' = "streamSingle"
               /\ outcome' = NoOutcome
               /\ keyUsageTracker' = got.tracker
               /\ lastOp' = [op |-> "sendChatCompletionStream",
                             arg |-> Null, result |-> got.key]
    /\ UNCHANGED <<availableKeys, retired, returned, poolOps, dispVars,
                   attemptsMade, concVars, lockVars, initVars, chatVars>>

\* sendStreamWithSingleModel, lines 226-232: the request is sent with the
\* key taken at entry (null included), no status handler and no parsing;
\* the Mono yields the body as received or signals the client's exception
StreamSingleAttempt ==
    /\ pc = "streamSingle"
    /\ \E resp \in Responses :
         LET currentModel == availableModels[currentModelIndex + 1]
             ok == ~IsErrorStatus(resp) /\ resp.kind # "exception"
             error == IF ok THEN <<>>
                      ELSE IF IsErrorStatus(resp)
                      THEN <<"WebClientResponseException">>
                      ELSE <<resp.text>>
             res == [key |-> lastOp.result, resp |-> resp, ok |-> ok,
                     error |-> error]
         IN /\ attempts' = Append(attempts,
                                  AttemptRecord(currentModel, res, FALSE))
            /\ outcome' = IF ok
                          THEN [kind |-> "returned",
                                content |-> <<resp.kind, resp.text>>,
                                error |-> <<>>]
                          ELSE Raised(error)
    /\ attemptsMade' = attemptsMade + 1
    /\ pc' = "done"
    /\ UNCHANGED <<poolVars, poolHist, dispVars, startIndex,
                   totalModelsTried, lastError, prev, switched, startKeyCount,
                   adminOps, concVars, lockVars, initVars, chatVars>>

StreamNext ==
    \/ StreamStart
    \/ Attempt
    \/ StreamSingleAttempt

StreamSpec == Init /\ [][StreamNext]_vars

-----------------------------------------------------------------------------
(* ChatService: processMessage and regenerateResponse, which call            *)
(* GroqService.sendChatCompletion and save to ChatRepository.  A call is     *)
(* entered, the dispatcher runs its call, and the statements after it run    *)
(* when the dispatcher is done.                                              *)

\* mutant: the save is reached however sendChatCompletion ended
SavesResponse_Always(o) == TRUE

\* lines 30-33 and 70-71: the statements after sendChatCompletion run when
\* it returned; its exception leaves the method
SavesResponse(o) == o.kind = "returned"

ChatInit ==
    \E ks \in {<<>>, <<"k1">>}, n \in 0..2, fb \in BOOLEAN :
        PoolInitWith(ks)
            /\ DispatcherInitWith(ConfigOfModels(n), fb,
                                  DefaultMaxAttemptsPerModel)

\* processMessage up to the call of line 30
ProcessMessage(userId) ==
    /\ chatCall.op = "none"
    /\ pc \in {"idle", "done"}
    /\ Len(chats) < MaxChats
    /\ chatCall' = [op |-> "processMessage", chatId |-> 0, userId |-> userId]
    /\ lastOp' = [op |-> "processMessage", arg |-> Null, result |-> Null]
    /\ UNCHANGED <<poolVars, retired, returned, poolOps, dispVars, callVars,
                   concVars, lockVars, initVars, chats>>

\* regenerateResponse up to the call of line 70; without a row of that id
\* and user line 63 throws "Chat not found"
RegenerateResponse(chatId, userId) ==
    /\ chatCall.op = "none"
    /\ pc \in {"idle", "done"}
    /\ IF chatId <= Len(chats) /\ chats[chatId].userId = userId
       THEN /\ chatCall' = [op |-> "regenerateResponse", chatId |-> chatId,
                            userId |-> userId]
            /\ lastOp' = [op |-> "regenerateResponse", arg |-> chatId,
                          result |-> Null]
       ELSE /\ chatCall' = [op |-> "none", chatId |-> 0, userId |-> Null]
            /\ lastOp' = [op |-> "regenerateResponse", arg |-> chatId,
                          result |-> "Chat not found"]
    /\ UNCHANGED <<poolVars, retired, returned, poolOps, dispVars, callVars,
                   concVars, lockVars, initVars, chats>>

\* lines 30 and 70: groqService.sendChatCompletion(messages) is entered
ChatDispatch ==
    /\ chatCall.op # "none"
    /\ lastOp.op = chatCall.op
    /\ CallStart

\* lines 33-42 and 71-75, or the exception of sendChatCompletion leaving the
\* method: a new row is saved with the response, the row found is saved
\* with the new response
ChatFinish ==
    /\ chatCall.op # "none"
    /\ lastOp.op = "sendChatCompletion"
    /\ pc = "done"
    /\ chats' =
          IF ~SavesResponse(outcome) THEN chats
          ELSE IF chatCall.op = "processMessage"
          THEN Append(chats, [userId |-> chatCall.userId, message |-> "q",
                              response |-> outcome.content])
          ELSE [chats EXCEPT ![chatCall.chatId].response = outcome.content]
    /\ chatCall' = [op |-> "none", chatId |-> 0, userId |-> Null]
    /\ lastOp' = [op |-> chatCall.op, arg |-> chatCall.chatId,
                  result |-> outcome.kind]
    /\ UNCHANGED <<poolVars, retired, returned, poolOps, dispVars, callVars,
                   concVars, lockVars, initVars>>

ChatNext ==
    \/ \E userId \in {"u1", "u2"} : ProcessMessage(userId)
    \/ \E chatId \in 1..MaxChats, userId \in {"u1", "u2"} :
          RegenerateResponse(chatId, userId)
    \/ ChatDispatch
    \/ Attempt
    \/ SingleAttempt
    \/ ChatFinish

ChatSpec == ChatInit /\ [][ChatNext]_vars


-----------------------------------------------------------------------------
(* GroqService from construction: init on an arbitrary configuration string, *)
(* then calls with an empty pool                                             *)

\* the bean as constructed, its fields injected, before init has run
ConfigInit ==
    \E config \in Configs, fb \in BOOLEAN :
        /\ PoolInitWith(<<>>)
        /\ modelsConfig = config
        /\ maxAttemptsPerModel = DefaultMaxAttemptsPerModel
        /\ availableModels = Null
        /\ fallbackEnabled = fb
        /\ currentModelIndex = 0
        /\ modelFailureCount = <<>>
        /\ modelSuccessCount = <<>>
        /\ pc = "constructed"
        /\ startIndex = 0
        /\ totalModelsTried = 0
        /\ lastError = <<>>
        /\ attempts = <<>>
        /\ outcome = NoOutcome
        /\ prev = [kind |-> "none", model |-> Null, failed |-> {},
                   switched |-> FALSE]
        /\ switched = FALSE
        /\ startKeyCount = 0
        /\ attemptsMade = 0
        /\ adminOps = 0
        /\ ThreadsAtRest

\* init, lines 39-70
PostConstruct ==
    /\ pc = "constructed"
    /\ availableModels' = InitModels(modelsConfig)
    /\ modelFailureCount' = [m \in ModelSet(InitModels(modelsConfig)) |-> 0]
    /\ modelSuccessCount' = [m \in ModelSet(InitModels(modelsConfig)) |-> 0]
    /\ pc' = "idle"
    /\ lastOp' = [op |-> "init", arg |-> Null, result |-> Null]
    /\ UNCHANGED <<poolVars, retired, returned, poolOps, modelsConfig, maxAttemptsPerModel,
                   fallbackEnabled, currentModelIndex, startIndex,
                   totalModelsTried, lastError, attempts, outcome, prev,
                   switched, startKeyCount, attemptsMade, adminOps, concVars, lockVars, initVars, chatVars>>

ConfigNext ==
    \/ PostConstruct
    \/ CallStart
    \/ Attempt
    \/ SingleAttempt

ConfigSpec == ConfigInit /\ [][ConfigNext]_vars

-----------------------------------------------------------------------------
(* GroqService called by concurrent threads.  The fields currentModelIndex,  *)
(* modelFailureCount and modelSuccessCount are shared without any lock, so   *)
(* each thread takes one step per access to them; the pool's operations are  *)
(* synchronized and an attempt uses them in one step.                        *)

\* what the upstream answers to the concurrent callers
ConcResponses == {Completion("hello"), RateLimited}

ConcUpstreamAnswers ==
    IF GetRotatedKey(availableKeys, keyUsageTracker).key = Null
    THEN {NoRequest} ELSE ConcResponses

ConcInit ==
    \E config \in {ConfigOfModels(n) : n \in 0..MaxConcModels},
       fb \in BOOLEAN, maxAttempts \in MaxAttemptsValues :
        PoolInitWith(<<"k1">>) /\ DispatcherInitWith(config, fb, maxAttempts)

\* the variables no step of a calling thread changes
ThreadFrame ==
    UNCHANGED <<returned, lastOp, poolOps, modelsConfig, maxAttemptsPerModel,
                availableModels,
                fallbackEnabled, callVars, apc, resetPos, lockVars, initVars, chatVars>>

\* sendChatCompletion is entered, lines 73-81; with fallback enabled lines
\* 85-87 follow, which read the cursor into startIndex
TEnter(t) ==
    /\ tpc[t] = "idle"
    /\ tAttempts' = [tAttempts EXCEPT ![t] = <<>>]
    /\ IF ModelCount = 0
       THEN /\ tpc' = [tpc EXCEPT ![t] = "done"]
            /\ tOutcome' = [tOutcome EXCEPT ![t] = "noModels"]
            /\ UNCHANGED <<tStart, tTried, tModel>>
       ELSE IF fallbackEnabled
       THEN /\ tpc' = [tpc EXCEPT ![t] = "top"]
            /\ tOutcome' = [tOutcome EXCEPT ![t] = "none"]
            /\ tStart' = [tStart EXCEPT ![t] = currentModelIndex]
            /\ tTried' = [tTried EXCEPT ![t] = 0]
            /\ UNCHANGED tModel
       ELSE /\ tpc' = [tpc EXCEPT ![t] = "single"]
            /\ tOutcome' = [tOutcome EXCEPT ![t] = "none"]
            /\ tModel' = [tModel EXCEPT
                             ![t] = availableModels[currentModelIndex + 1]]
            /\ UNCHANGED <<tStart, tTried>>
    /\ UNCHANGED <<poolVars, retired, currentModelIndex, modelFailureCount,
                   modelSuccessCount, tRead>>
    /\ ThreadFrame

\* lines 90-91: the model at the cursor is read, the attempt counted
TTop(t) ==
    /\ tpc[t] = "top"
    /\ tModel' = [tModel EXCEPT ![t] = availableModels[currentModelIndex + 1]]
    /\ tTried' = [tTried EXCEPT ![t] = tTried[t] + 1]
    /\ tpc' = [tpc EXCEPT ![t] = "send"]
    /\ UNCHANGED <<poolVars, retired, currentModelIndex, modelFailureCount,
                   modelSuccessCount, tStart, tRead, tAttempts, tOutcome>>
    /\ ThreadFrame

\* line 97 (line 80 with fallback disabled): sendWithSingleModel
TSend(t) ==
    /\ tpc[t] \in {"send", "single"}
    /\ \E resp \in ConcUpstreamAnswers :
         LET res == SendWithSingleModel(availableKeys, keyUsageTracker,
                                        tModel[t], resp)
         IN /\ availableKeys' = res.availableKeys
            /\ keyUsageTracker' = res.tracker
            /\ retired' = IF res.key # Null /\ RetiresKey(res.resp)
                          THEN retired \cup {res.key} ELSE retired
            /\ tAttempts' = [tAttempts EXCEPT
                    ![t] = Append(@, [model |-> tModel[t], ok |-> res.ok])]
            /\ IF tpc[t] = "single"
               THEN /\ tpc' = [tpc EXCEPT ![t] = "done"]
                    /\ tOutcome' = [tOutcome EXCEPT
                            ![t] = IF res.ok THEN "returned" ELSE "raisedSingle"]
               ELSE /\ tpc' = [tpc EXCEPT
                            ![t] = IF res.ok THEN "successRead" ELSE "failureRead"]
                    /\ UNCHANGED tOutcome
    /\ UNCHANGED <<currentModelIndex, modelFailureCount, modelSuccessCount,
                   tStart, tTried, tModel, tRead>>
    /\ ThreadFrame

\* line 98, modelSuccessCount.get(currentModel)
TSuccessRead(t) ==
    /\ tpc[t] = "successRead"
    /\ tRead' = [tRead EXCEPT ![t] = modelSuccessCount[tModel[t]]]
    /\ tpc' = [tpc EXCEPT ![t] = "successWrite"]
    /\ UNCHANGED <<poolVars, retired, currentModelIndex, modelFailureCount,
                   modelSuccessCount, tStart, tTried, tModel, tAttempts,
                   tOutcome>>
    /\ ThreadFrame

\* line 98, modelSuccessCount.put(currentModel, ... + 1)
TSuccessWrite(t) ==
    /\ tpc[t] = "successWrite"
    /\ modelSuccessCount' =
          [modelSuccessCount EXCEPT ![tModel[t]] = tRead[t] + 1]
    /\ tRead' = [tRead EXCEPT ![t] = 0]
    /\ tpc' = [tpc EXCEPT ![t] = "failureReset"]
    /\ UNCHANGED <<poolVars, retired, currentModelIndex, modelFailureCount,
                   tStart, tTried, tModel, tAttempts, tOutcome>>
    /\ ThreadFrame

\* lines 99-101: the failure counter is set to 0 and the call returns
TFailureReset(t) ==
    /\ tpc[t] = "failureReset"
    /\ modelFailureCount' = [modelFailureCount EXCEPT ![tModel[t]] = 0]
    /\ tpc' = [tpc EXCEPT ![t] = "done"]
    /\ tOutcome' = [tOutcome EXCEPT ![t] = "returned"]
    /\ UNCHANGED <<poolVars, retired, currentModelIndex, modelSuccessCount,
                   tStart, tTried, tModel, tRead, tAttempts>>
    /\ ThreadFrame

\* line 105, modelFailureCount.get(currentModel)
TFailureRead(t) ==
    /\ tpc[t] = "failureRead"
    /\ tRead' = [tRead EXCEPT ![t] = modelFailureCount[tModel[t]]]
    /\ tpc' = [tpc EXCEPT ![t] = "failureWrite"]
    /\ UNCHANGED <<poolVars, retired, currentModelIndex, modelFailureCount,
                   modelSuccessCount, tStart, tTried, tModel, tAttempts,
                   tOutcome>>
    /\ ThreadFrame

\* line 105, modelFailureCount.put(currentModel, ... + 1)
TFailureWrite(t) ==
    /\ tpc[t] = "failureWrite"
    /\ modelFailureCount' =
          [modelFailureCount EXCEPT ![tModel[t]] = tRead[t] + 1]
    /\ tRead' = [tRead EXCEPT ![t] = 0]
    /\ tpc' = [tpc EXCEPT ![t] = "cursorRead"]
    /\ UNCHANGED <<poolVars, retired, currentModelIndex, modelSuccessCount,
                   tStart, tTried, tModel, tAttempts, tOutcome>>
    /\ ThreadFrame

\* line 114, the read of currentModelIndex
TCursorRead(t) ==
    /\ tpc[t] = "cursorRead"
    /\ tRead' = [tRead EXCEPT ![t] = currentModelIndex]
    /\ tpc' = [tpc EXCEPT ![t] = "cursorWrite"]
    /\ UNCHANGED <<poolVars, retired, currentModelIndex, modelFailureCount,
                   modelSuccessCount, tStart, tTried, tModel, tAttempts,
                   tOutcome>>
    /\ ThreadFrame

\* line 114, the write of currentModelIndex
TCursorWrite(t) ==
    /\ tpc[t] = "cursorWrite"
    /\ currentModelIndex' = NextModelIndex(tRead[t], ModelCount)
    /\ tRead' = [tRead EXCEPT ![t] = 0]
    /\ tpc' = [tpc EXCEPT ![t] = "cursorCheck"]
    /\ UNCHANGED <<poolVars, retired, modelFailureCount, modelSuccessCount,
                   tStart, tTried, tModel, tAttempts, tOutcome>>
    /\ ThreadFrame

\* lines 116-130: the cursor is read again and compared with startIndex;
\* the loop ends (and the aggregate error is thrown) or, after the sleep,
\* goes on while totalModelsTried < availableModels.length
TCursorCheck(t) ==
    /\ tpc[t] = "cursorCheck"
    /\ IF LoopEnds(currentModelIndex, tStart[t], tTried[t], ModelCount)
       THEN /\ tpc' = [tpc EXCEPT ![t] = "done"]
            /\ tOutcome' = [tOutcome EXCEPT ![t] = "raisedAll"]
       ELSE /\ tpc' = [tpc EXCEPT ![t] = "top"]
            /\ UNCHANGED tOutcome
    /\ UNCHANGED <<poolVars, retired, currentModelIndex, modelFailureCount,
                   modelSuccessCount, tStart, tTried, tModel, tRead,
                   tAttempts>>
    /\ ThreadFrame

ThreadStep(t) ==
    \/ TEnter(t)
    \/ TTop(t)
    \/ TSend(t)
    \/ TSuccessRead(t)
    \/ TSuccessWrite(t)
    \/ TFailureReset(t)
    \/ TFailureRead(t)
    \/ TFailureWrite(t)
    \/ TCursorRead(t)
    \/ TCursorWrite(t)
    \/ TCursorCheck(t)

\* the variables no administrative step changes
AdminFrame ==
    UNCHANGED <<poolVars, poolHist, modelsConfig, maxAttemptsPerModel, availableModels,
                fallbackEnabled, modelSuccessCount, pc, startIndex,
                totalModelsTried, lastError, attempts, outcome, prev, switched,
                startKeyCount, attemptsMade, tpc, tStart, tTried, tModel,
                tRead, tAttempts, tOutcome, lockVars, initVars, chatVars>>

\* switchToModel called while the threads run: its one write of the cursor,
\* line 264
ConcSwitchToModel(modelName) ==
    /\ apc = "idle"
    /\ apc' = "done"
    /\ LET i == IndexOfModel(availableModels, modelName)
       IN IF i >= 0 THEN currentModelIndex' = i
          ELSE UNCHANGED currentModelIndex
    /\ UNCHANGED <<modelFailureCount, resetPos, adminOps>>
    /\ AdminFrame

ConcSwitchToAnyModel ==
    \E modelName \in ModelSet(availableModels) \cup {"no-such-model"} :
        ConcSwitchToModel(modelName)

\* resetFailureCounts called while the threads run: one put per model,
\* lines 275-277
ConcResetStep ==
    /\ apc \in {"idle", "reset"}
    /\ ModelCount >= 1
    /\ modelFailureCount' =
          [modelFailureCount EXCEPT ![availableModels[resetPos + 1]] = 0]
    /\ resetPos' = resetPos + 1
    /\ apc' = IF resetPos + 1 = ModelCount THEN "done" ELSE "reset"
    /\ UNCHANGED <<currentModelIndex, adminOps>>
    /\ AdminFrame

ConcNext ==
    \/ \E t \in Threads : ThreadStep(t)
    \/ ConcSwitchToAnyModel
    \/ ConcResetStep

ConcSpec == ConcInit /\ [][ConcNext]_vars

-----------------------------------------------------------------------------
(* Properties of the dispatcher, checked under Spec *)

LastAttempt == attempts[Len(attempts)]

AttemptIndex(a) == IndexOfModel(availableModels, a.model)

\* the call has ended and no switchToModel has moved the cursor since
CallEnded == pc = "done" /\ ~switched

\* a fallback call has ended that started at model 0 with a non-empty pool,
\* met no rejected credential, saw every attempt on models 0..K-2 fail and
\* every attempt on model K-1 answered by a completion
C1_Case ==
    /\ CallEnded
    /\ fallbackEnabled
    /\ ModelCount >= 1
    /\ startIndex = 0
    /\ startKeyCount >= 1
    /\ \A i \in 1..Len(attempts) :
          /\ attempts[i].resp.status # 401
          /\ AttemptIndex(attempts[i]) < ModelCount - 1 => ~attempts[i].ok
          /\ AttemptIndex(attempts[i]) = ModelCount - 1
                => attempts[i].resp.kind = "completion"

\* C1 (fallback coverage): with K models, the cursor at model 0, credentials
\* never rejected, models 0..K-2 failing and model K-1 succeeding, the call
\* returns the content model K-1 answered, after at most K attempts, and the
\* cursor is K-1 when it returns.
C1_FallbackCoverage ==
    C1_Case =>
        /\ Len(attempts) >= 1
        /\ Len(attempts) <= ModelCount
        /\ outcome = Returned(LastAttempt.resp.text)
        /\ AttemptIndex(LastAttempt) = ModelCount - 1
        /\ currentModelIndex = ModelCount - 1

C1_Witness ==
    /\ C1_Case
    /\ ModelCount = 3
    /\ Len(attempts) = 3
    /\ outcome = Returned("bye")

\* C2 (exhaustion): when every attempt of a fallback call fails, the call
\* makes exactly K attempts, one per model, and raises the one aggregate
\* error, which lists all K models and ends with the message of the last
\* failed attempt.
C2_Exhaustion ==
    (/\ pc = "done"
     /\ fallbackEnabled
     /\ ModelCount >= 1
     /\ \A i \in 1..Len(attempts) : ~attempts[i].ok)
    => /\ Len(attempts) = ModelCount
       /\ {attempts[i].model : i \in 1..Len(attempts)} = ModelSet(availableModels)
       /\ outcome.kind = "raised"
       /\ outcome.error =
             <<"All Groq models failed. Models tried: ">>
                 \o ArraysToString(availableModels)
                 \o <<"\nLast error: ">> \o LastAttempt.error

C2_Witness ==
    /\ pc = "done"
    /\ fallbackEnabled
    /\ ModelCount = 3
    /\ Len(attempts) = 3
    /\ \A i \in 1..Len(attempts) : ~attempts[i].ok
    /\ attempts[1].resp = RateLimited
    /\ attempts[3].resp = Decommissioned
    /\ outcome.kind = "raised"

\* C3 (sticky cursor): a successful attempt leaves the cursor where it was,
\* on the model that succeeded; and when the previous call returned and no
\* switchToModel came in between, the first attempt of the next call is on
\* the model that succeeded, which is none of the models that failed in the
\* previous call.
C3_StickyCursor ==
    [][/\ (Len(attempts') = Len(attempts) + 1 /\ attempts'[Len(attempts')].ok)
            => /\ currentModelIndex' = currentModelIndex
               /\ GetCurrentModel(availableModels', currentModelIndex')
                      = attempts'[Len(attempts')].model
               /\ outcome'.kind = "returned"
       /\ (Len(attempts) = 0 /\ Len(attempts') = 1
             /\ prev'.kind = "returned" /\ ~prev'.switched)
            => /\ attempts'[1].model = prev'.model
               /\ attempts'[1].model \notin prev'.failed]_vars

C3_Witness ==
    /\ prev.kind = "returned"
    /\ ~prev.switched
    /\ prev.failed # {}
    /\ Len(attempts) >= 1
    /\ attempts[1].model = prev.model

\* C8 (empty pool): an attempt made with an empty pool gets the null signal
\* from getRotatedKey, which leaves the pool as it was; no request is issued
\* and the attempt fails with "No valid API key available", which the
\* fallback loop counts against the attempted model and answers by advancing
\* the cursor (with fallback disabled it is the call's error).
C8_EmptyPoolSignal ==
    [][(availableKeys = <<>> /\ Len(attempts') = Len(attempts) + 1)
          => LET a == attempts'[Len(attempts')]
             IN /\ a.key = Null
                /\ a.resp = NoRequest
                /\ ~a.ok
                /\ a.error = <<"No valid API key available">>
                /\ availableKeys' = availableKeys
                /\ keyUsageTracker' = keyUsageTracker
                /\ fallbackEnabled
                      => /\ modelFailureCount'[a.model]
                               = modelFailureCount[a.model] + 1
                         /\ modelSuccessCount' = modelSuccessCount
                         /\ currentModelIndex'
                               = (currentModelIndex + 1) % ModelCount
                         /\ lastError' = a.error
                /\ ~fallbackEnabled => outcome' = Raised(a.error)]_vars

C8_Witness ==
    /\ availableKeys = <<>>
    /\ keyUsageTracker = <<>>
    /\ retired = {}
    /\ Len(attempts) = 2
    /\ attempts[2].key = Null
    /\ modelFailureCount[attempts[2].model] = 1

\* Scenario B has run to its end: models m1, m2, m3, the cursor at m1, at
\* least minKeys entries in the pool when the call started, and an upstream
\* that answers 401 for m1, 500 model_decommissioned for m2, "hello" for m3
C10_Case(minKeys) ==
    /\ CallEnded
    /\ fallbackEnabled
    /\ availableModels = <<"m1", "m2", "m3">>
    /\ startIndex = 0
    /\ startKeyCount >= minKeys
    /\ \A i \in 1..Len(attempts) :
          attempts[i].resp # NoRequest
             => /\ attempts[i].model = "m1" => attempts[i].resp = Unauthorized
                /\ attempts[i].model = "m2" => attempts[i].resp = Decommissioned
                /\ attempts[i].model = "m3"
                      => attempts[i].resp = Completion("hello")

C11_ScenarioC ==
    [][(pc = "loop" /\ startKeyCount = 0 /\ Len(attempts') = Len(attempts) + 1)
          => LET a == attempts'[Len(attempts')]
             IN /\ a.resp = NoRequest
                /\ a.key = Null
                /\ ~a.ok
                /\ a.error = <<"No valid API key available">>
                /\ \A i \in 1..Len(attempts) : attempts[i].model # a.model
                /\ modelFailureCount' =
                      [modelFailureCount EXCEPT ![a.model] = @ + 1]
                /\ modelSuccessCount' = modelSuccessCount
                /\ (pc' = "done") = (Len(attempts') = ModelCount)
                /\ pc' = "done"
                      => /\ outcome'.kind = "raised"
                         /\ outcome'.error[1]
                               = "All Groq models failed. Models tried: "
                         /\ \A m \in ModelSet(availableModels) :
                               \E j \in 1..Len(outcome'.error) :
                                   outcome'.error[j] = m
                         /\ outcome'.error[Len(outcome'.error)]
                               = "No valid API key available"
                /\ pc' # "done" => outcome'.kind = "none"]_vars

C11_Witness ==
    /\ pc = "done"
    /\ fallbackEnabled
    /\ startKeyCount = 0
    /\ ModelCount = 3
    /\ Len(attempts) = 3
    /\ \A m \in ModelSet(availableModels) : modelFailureCount[m] = 1
    /\ outcome.kind = "raised"

\* the step is an attempt of the fallback loop
LoopAttempt == pc = "loop" /\ Len(attempts') = Len(attempts) + 1

\* the step is a call of resetFailureCounts
ResetStep == lastOp'.op = "resetFailureCounts" /\ adminOps' = adminOps + 1

\* what each step does to the per-model counters
CounterSteps ==
    LET m == attempts'[Len(attempts')].model
        ok == attempts'[Len(attempts')].ok
    IN /\ (LoopAttempt /\ ~ok)
             => /\ modelFailureCount' =
                      [modelFailureCount EXCEPT ![m] = @ + 1]
                /\ modelSuccessCount' = modelSuccessCount
       /\ (LoopAttempt /\ ok)
             => /\ modelSuccessCount' =
                      [modelSuccessCount EXCEPT ![m] = @ + 1]
                /\ modelFailureCount' = [modelFailureCount EXCEPT ![m] = 0]
       /\ ResetStep
             => /\ modelFailureCount' = [x \in DOMAIN modelFailureCount |-> 0]
                /\ modelSuccessCount' = modelSuccessCount
       /\ (~LoopAttempt /\ ~ResetStep)
             => /\ modelFailureCount' = modelFailureCount
                /\ modelSuccessCount' = modelSuccessCount

\* C16 (per-model counters, sequential calls): the counters start at 0 for
\* every model of the list; a failed attempt of the fallback loop adds 1 to
\* the failure counter of the attempted model; a successful one adds 1 to
\* its success counter and sets its failure counter to 0; neither changes a
\* counter of another model; resetFailureCounts sets every failure counter
\* to 0; and no other step changes a counter.  So between attempts the
\* failure counter is the number of failed attempts since the model's last
\* success or the last reset, and the success counter the number of
\* successful attempts.
C16_ModelCounters ==
    /\ DOMAIN modelFailureCount = ModelSet(availableModels)
    /\ DOMAIN modelSuccessCount = ModelSet(availableModels)
    /\ \A m \in ModelSet(availableModels) :
          modelFailureCount[m] = 0 /\ modelSuccessCount[m] = 0
    /\ [][CounterSteps]_vars

C16_Witness ==
    /\ fallbackEnabled
    /\ ModelCount = 2
    /\ prev.kind = "raised"
    /\ outcome.kind = "returned"
    /\ modelFailureCount = [m \in {"m1", "m2"} |->
                               IF m = "m1" THEN 0 ELSE 1]
    /\ modelSuccessCount = [m \in {"m1", "m2"} |->
                               IF m = "m1" THEN 1 ELSE 0]

-----------------------------------------------------------------------------
(* Properties of the pool, checked under PoolSpec *)

KeysOf(avail) == {avail[i] : i \in 1..Len(avail)}

\* the step is a direct call of the named pool operation
PoolStep(op) == lastOp'.op = op /\ poolOps' = poolOps + 1

\* C4 (retirement permanence): once markKeyAsInvalid(c) has completed, no
\* getRotatedKey returns c.
C4_RetirementPermanence ==
    lastOp.op = "getRotatedKey" => lastOp.result \notin retired

\* C5 (load spreading): with no retirement, the usage counters of any two
\* credentials differ by at most 1 after any number of getRotatedKey calls.
C5_LoadSpreading ==
    retired = {} =>
        \A i, j \in 1..Len(keyUsageTracker) :
            keyUsageTracker[i].requestCount
                - keyUsageTracker[j].requestCount <= 1

C5_Witness ==
    /\ retired = {}
    /\ Len(keyUsageTracker) = 2
    /\ Len(returned) = 3
    /\ keyUsageTracker[1].requestCount = 2
    /\ keyUsageTracker[2].requestCount = 1

\* C6 (acquire on a non-empty pool): getRotatedKey with availableKeys not
\* empty returns a credential whose counter is the least of all, adds exactly
\* 1 to that counter, and leaves the other counters and the membership of
\* the pool unchanged.
C6_AcquireLeastUsed ==
    [][(PoolStep("getRotatedKey") /\ availableKeys # <<>>)
          => LET k == lastOp'.result
             IN /\ k \in TrackerKeys(keyUsageTracker)
                /\ \A i \in 1..Len(keyUsageTracker) :
                      RequestCount(keyUsageTracker, k)
                          <= keyUsageTracker[i].requestCount
                /\ availableKeys' = availableKeys
                /\ TrackerKeys(keyUsageTracker') = TrackerKeys(keyUsageTracker)
                /\ \A c \in TrackerKeys(keyUsageTracker) :
                      RequestCount(keyUsageTracker', c)
                          = RequestCount(keyUsageTracker, c)
                                + (IF c = k THEN 1 ELSE 0)]_vars

\* C7 (retire): markKeyAsInvalid(c) lowers getAvailableKeyCount by exactly 1
\* when c is in the pool and by 0 when it is not; with c absent nothing
\* changes; and a second markKeyAsInvalid(c) right after the first changes
\* nothing.
C7_RetireIdempotent ==
    [][PoolStep("markKeyAsInvalid")
          => LET c == lastOp'.arg
             IN /\ GetAvailableKeyCount(availableKeys')
                      = GetAvailableKeyCount(availableKeys)
                          - (IF c \in KeysOf(availableKeys) THEN 1 ELSE 0)
                /\ c \notin KeysOf(availableKeys)
                      => /\ availableKeys' = availableKeys
                         /\ keyUsageTracker' = keyUsageTracker
                /\ (lastOp.op = "markKeyAsInvalid" /\ lastOp.arg = c)
                      => /\ availableKeys' = availableKeys
                         /\ keyUsageTracker' = keyUsageTracker]_vars

NoDuplicates(s) == \A i, j \in 1..Len(s) : s[i] = s[j] => i = j

\* the position at which a key was first inserted
FirstPosition(avail, k) ==
    CHOOSE i \in 1..Len(avail) :
        avail[i] = k /\ \A j \in 1..(i - 1) : avail[j] # k

\* the distinct keys of the list in the order the usage map iterates them:
\* by the bin of the key's hash, and by insertion within one bin
IterationOrder(avail) ==
    CHOOSE s \in [1..Cardinality(KeysOf(avail)) -> KeysOf(avail)] :
        \A i, j \in 1..Len(s) :
            i < j =>
                \/ TableIndex(s[i]) < TableIndex(s[j])
                \/ /\ TableIndex(s[i]) = TableIndex(s[j])
                   /\ FirstPosition(avail, s[i]) < FirstPosition(avail, s[j])

-----------------------------------------------------------------------------
(* Properties of the dispatcher's use of the pool, checked under Spec *)

\* the attempt the step has made
NewAttempt == attempts'[Len(attempts')]

\* what a 401 answer to an attempt of the fallback loop leads to
UnauthorizedStep ==
    (LoopAttempt /\ NewAttempt.resp.status = 401)
       => /\ NewAttempt.key \notin KeysOf(availableKeys')
          /\ NewAttempt.key \notin TrackerKeys(keyUsageTracker')
          /\ ~NewAttempt.ok
          /\ modelFailureCount' =
                [modelFailureCount EXCEPT ![NewAttempt.model] = @ + 1]
          /\ modelSuccessCount' = modelSuccessCount
          /\ currentModelIndex' = (currentModelIndex + 1) % ModelCount
          /\ outcome'.kind # "returned"

\* C17 (HTTP 401): the credential used for an attempt that receives 401 is
\* no longer in the pool when the failure reaches the fallback loop, which
\* adds 1 to the failure counter of the attempted model and advances the
\* cursor to the next model.
C17_Unauthorized == [][UnauthorizedStep]_vars

\* the same for a pool that holds no credential twice
UnauthorizedWhenDistinct ==
    [][NoDuplicates(availableKeys) => UnauthorizedStep]_vars

\* what a failed attempt of the fallback loop that was not answered with 401
\* leads to, as a function of the state before it alone
FailedAttemptStep ==
    (LoopAttempt /\ ~NewAttempt.ok /\ NewAttempt.resp.status # 401)
       => /\ currentModelIndex' = (currentModelIndex + 1) % ModelCount
          /\ modelFailureCount' =
                [modelFailureCount EXCEPT
                    ![availableModels[currentModelIndex + 1]] = @ + 1]
          /\ modelSuccessCount' = modelSuccessCount
          /\ availableKeys' = availableKeys
          /\ keyUsageTracker' =
                GetRotatedKey(availableKeys, keyUsageTracker).tracker
          /\ Len(attempts') = Len(attempts) + 1
          /\ totalModelsTried' = totalModelsTried + 1
          /\ (pc' = "done")
                = (\/ (currentModelIndex + 1) % ModelCount = startIndex
                   \/ totalModelsTried + 1 >= ModelCount)
          /\ pc' = "done"
                => /\ outcome'.kind = "raised"
                   /\ outcome'.error[1]
                         = "All Groq models failed. Models tried: "
          /\ pc' # "done" => pc' = "loop" /\ outcome' = NoOutcome

\* C19 (classification does not drive control flow): the cursor, the
\* per-model counters, the pool, the number of attempts and the way the call
\* goes on or ends after a failed attempt are one function of the state
\* before the attempt, whether the error text carries a model-specific
\* marker or not; so two runs that differ only in that marker agree on them.
C19_ClassificationBlind == [][FailedAttemptStep]_vars

\* one call has met a failure with the marker and a transient one
C19_Witness ==
    /\ pc = "done"
    /\ Len(attempts) = 3
    /\ attempts[1].resp = Decommissioned
    /\ attempts[1].modelSpecific
    /\ attempts[2].resp = RateLimited
    /\ ~attempts[2].modelSpecific
    /\ ~attempts[3].ok
    /\ currentModelIndex = startIndex
    /\ \A m \in ModelSet(availableModels) : modelFailureCount[m] = 1

\* the step is a single-model attempt, of the fallback loop or not
AnyAttempt == Len(attempts') = Len(attempts) + 1

\* C18 (only 401 retires): an attempt that is not answered with 401,
\* whether it succeeds or fails, leaves the list of credentials and the set
\* of usage records as they were; all it does to the pool is the increment
\* of the usage counter of the credential getRotatedKey handed out.
C18_OnlyUnauthorizedRetires ==
    [][(AnyAttempt /\ NewAttempt.resp.status # 401)
          => /\ availableKeys' = availableKeys
             /\ retired' = retired
             /\ keyUsageTracker' =
                   IF NewAttempt.key \in TrackerKeys(keyUsageTracker)
                   THEN IncrementRequestCount(keyUsageTracker, NewAttempt.key)
                   ELSE keyUsageTracker]_vars

C18_Witness ==
    /\ Len(attempts) = 3
    /\ attempts[1].resp = Garbage
    /\ attempts[2].resp = Unreachable
    /\ attempts[3].resp = Decommissioned
    /\ retired = {}
    /\ availableKeys = <<"k1", "k2">>
    /\ RequestCount(keyUsageTracker, "k1") = 2
    /\ RequestCount(keyUsageTracker, "k2") = 1

\* C20 (malformed 2xx body): an attempt answered 2xx with a body that is
\* not a completion document fails with the parse error; the call does not
\* return on it; in the fallback loop the failure counter of the attempted
\* model grows by 1, no success counter changes, and the cursor advances as
\* for any other failure.
C20_MalformedResponse ==
    [][(/\ AnyAttempt
        /\ NewAttempt.resp.status = 200
        /\ NewAttempt.resp.kind # "completion")
          => /\ ~NewAttempt.ok
             /\ \E i \in 1..Len(NewAttempt.error) :
                   NewAttempt.error[i] = "Failed to parse API response: "
             /\ outcome'.kind # "returned"
             /\ modelSuccessCount' = modelSuccessCount
             /\ LoopAttempt
                   => /\ modelFailureCount' =
                            [modelFailureCount EXCEPT
                                ![NewAttempt.model] = @ + 1]
                      /\ currentModelIndex'
                            = (currentModelIndex + 1) % ModelCount
                      /\ lastError' = NewAttempt.error
             /\ ~LoopAttempt => outcome' = Raised(NewAttempt.error)]_vars

C20_Witness ==
    /\ fallbackEnabled
    /\ Len(attempts) = 2
    /\ attempts[1].resp = Garbage
    /\ attempts[1].model = "m1"
    /\ modelFailureCount["m1"] = 1
    /\ modelSuccessCount["m1"] = 0
    /\ attempts[2].resp = Completion("hello")
    /\ outcome = Returned("hello")
    /\ currentModelIndex = 1

-----------------------------------------------------------------------------
(* Properties of init, checked under ConfigSpec *)

\* the entries of the configuration string, each trimmed
TrimmedEntries(config) ==
    [i \in 1..Len(Split(config)) |-> Str(Trim(Split(config)[i]))]

\* init has run on a configuration string that is not blank
Configured ==
    /\ pc # "constructed"
    /\ \E i \in 1..Len(modelsConfig) : modelsConfig[i] # " "

\* C12 (de-duplication): after init the model list holds no identifier twice;
\* for a configured string it holds exactly the trimmed comma-separated
\* entries, each once, in the order of their first occurrence; and
\* "a,a,b, b ,a" yields ["a","b"].
C12_Deduplication ==
    pc # "constructed" =>
        /\ NoDuplicates(availableModels)
        /\ modelsConfig = ExampleConfig => availableModels = <<"a", "b">>
        /\ Configured =>
              LET names == TrimmedEntries(modelsConfig)
              IN /\ ModelSet(availableModels) = ModelSet(names)
                 /\ \A p, q \in 1..Len(availableModels) :
                       p < q => FirstPosition(names, availableModels[p])
                                   < FirstPosition(names, availableModels[q])

C12_Witness ==
    /\ pc = "idle"
    /\ modelsConfig = <<"a", ",", "a", ",", "b", ",", " ", "b", " ", ",", "a">>
    /\ availableModels = <<"a", "b">>
    /\ DOMAIN modelFailureCount = {"a", "b"}

\* C13 (non-empty model list): after init the model list is not empty,
\* whatever the configuration string: absent, empty, blank, or made only of
\* commas and blanks.
C13_NonEmptyModels ==
    pc # "constructed" => Len(availableModels) >= 1

-----------------------------------------------------------------------------
(* Properties of the dispatcher under concurrency, checked under ConcSpec *)

\* thread t takes the step that leaves position from
ThreadLeaves(t, from) == tpc[t] = from /\ tpc'[t] # from

\* what the steps of the calling threads do to the cursor: the write of
\* line 114 stores (the value read + 1) mod modelCount, every other step of
\* a call leaves the cursor alone
CursorSteps ==
    \A t \in Threads :
        /\ ThreadLeaves(t, "cursorWrite")
              => currentModelIndex' = (tRead[t] + 1) % ModelCount
        /\ (tpc'[t] # tpc[t] /\ tpc[t] # "cursorWrite")
              => currentModelIndex' = currentModelIndex

\* C14 (cursor range): in every reachable state 0 <= currentModelIndex <
\* modelCount, under any interleaving of sendChatCompletion, switchToModel
\* and resetFailureCounts, and the only change a failed attempt makes to the
\* cursor is cursor := (cursor + 1) mod modelCount.
C14_CursorInRange ==
    /\ [](0 <= currentModelIndex /\ currentModelIndex < ModelCount)
    /\ [][CursorSteps]_vars

\* the same with at least one model configured
CursorInRangeWhenConfigured ==
    /\ [](ModelCount >= 1
            => (0 <= currentModelIndex /\ currentModelIndex < ModelCount))
    /\ [][CursorSteps]_vars

\* C15 (attempts per call): a sendChatCompletion call makes at least 1 and
\* at most modelCount single-model attempts, whatever the other threads do
\* to the cursor and whatever the value of max-attempts-per-model.
C15_AttemptBound ==
    \A t \in Threads :
        /\ Len(tAttempts[t]) <= ModelCount
        /\ tpc[t] = "done" => Len(tAttempts[t]) >= 1

\* the same with at least one model configured
AttemptBoundWhenConfigured ==
    ModelCount >= 1 =>
        \A t \in Threads :
            /\ Len(tAttempts[t]) <= ModelCount
            /\ tpc[t] = "done" => Len(tAttempts[t]) >= 1
            /\ (tpc[t] = "done" /\ ~fallbackEnabled) => Len(tAttempts[t]) = 1

\* two concurrent calls have each made modelCount attempts although
\* max-attempts-per-model is 1
AttemptBoundReached ==
    /\ ModelCount = 2
    /\ maxAttemptsPerModel = 1
    /\ \A t \in Threads : tpc[t] = "done" /\ Len(tAttempts[t]) = 2
    /\ tAttempts["t1"][1].model = tAttempts["t1"][2].model

-----------------------------------------------------------------------------
(* Properties of the administrative operations, checked under Spec *)

\* the step is a call of switchToModel
SwitchStep == lastOp'.op = "switchToModel" /\ adminOps' = adminOps + 1

\* what a call of switchToModel does
SwitchToModelContract ==
    SwitchStep =>
        LET modelName == lastOp'.arg
        IN /\ modelFailureCount' = modelFailureCount
           /\ modelSuccessCount' = modelSuccessCount
           /\ availableModels' = availableModels
           /\ IF modelName \in ModelSet(availableModels)
              THEN /\ lastOp'.result = "ok"
                   /\ currentModelIndex' \in 0..(ModelCount - 1)
                   /\ availableModels[currentModelIndex' + 1] = modelName
              ELSE /\ lastOp'.result = "IllegalArgumentException"
                   /\ currentModelIndex' = currentModelIndex

\* C21 (switchToModel): with a name of the model list the cursor becomes the
\* index of that name and the counters are unchanged; with any other name the
\* call fails with the not-found error (IllegalArgumentException) and leaves
\* the cursor and all counters unchanged.
C21_SwitchToModel == [][SwitchToModelContract]_vars

C21_Witness ==
    /\ lastOp = [op |-> "switchToModel", arg |-> "m2", result |-> "ok"]
    /\ ModelCount = 2
    /\ prev.kind = "none"
    /\ outcome.kind = "raised"
    /\ currentModelIndex = 1
    /\ \A m \in ModelSet(availableModels) : modelFailureCount[m] = 1

\* what a call of resetFailureCounts does
ResetFailureCountsContract ==
    ResetStep =>
        /\ DOMAIN modelFailureCount' = ModelSet(availableModels)
        /\ \A m \in ModelSet(availableModels) : modelFailureCount'[m] = 0
        /\ modelSuccessCount' = modelSuccessCount
        /\ currentModelIndex' = currentModelIndex
        /\ availableModels' = availableModels
        /\ availableKeys' = availableKeys
        /\ keyUsageTracker' = keyUsageTracker

\* C22 (resetFailureCounts): the call sets the failure counter of every model
\* of the list to 0 and leaves the success counters, the cursor, the model
\* list and the credential pool unchanged.
C22_ResetFailureCounts == [][ResetFailureCountsContract]_vars

C22_Witness ==
    /\ lastOp.op = "resetFailureCounts"
    /\ ModelCount = 2
    /\ Len(attempts) = 2
    /\ ~attempts[1].ok
    /\ attempts[1].model = "m1"
    /\ outcome.kind = "returned"
    /\ currentModelIndex = 1
    /\ modelSuccessCount["m2"] = 1
    /\ keyUsageTracker # <<>>
    /\ \A m \in ModelSet(availableModels) : modelFailureCount[m] = 0

-----------------------------------------------------------------------------
(* How a call ends, checked under Spec *)

\* the aggregate error of lines 128-130 for the attempts of this call
AggregateError ==
    <<"All Groq models failed. Models tried: ">>
        \o ArraysToString(availableModels)
        \o <<"\nLast error: ">> \o LastAttempt.error

\* the call returned the content extracted from the answer to its last
\* attempt
EndsReturning ==
    /\ outcome.kind = "returned"
    /\ attempts # <<>>
    /\ LastAttempt.ok
    /\ LastAttempt.resp.kind = "completion"
    /\ outcome.content = LastAttempt.resp.text

\* the call raised the aggregate error after failed attempts only
EndsExhausted ==
    /\ outcome.kind = "raised"
    /\ attempts # <<>>
    /\ \A i \in 1..Len(attempts) : ~attempts[i].ok
    /\ outcome.error = AggregateError

\* the call raised the error of its one attempt
EndsWithAttemptError ==
    /\ outcome.kind = "raised"
    /\ Len(attempts) = 1
    /\ ~LastAttempt.ok
    /\ outcome.error = LastAttempt.error

\* the call raised the error of line 74 without an attempt
EndsWithoutModels ==
    /\ outcome.kind = "raised"
    /\ attempts = <<>>
    /\ outcome.error = <<"No models configured in GroqService">>

\* C23 as stated (propagation policy): every sendChatCompletion call ends by
\* returning the extracted text or by raising the aggregate all-models-failed
\* error, for every configuration of the dispatcher; stated here for the
\* configurations with a model list that is not empty, whatever the
\* fallback-enabled flag.
C23_Propagation_AsStated ==
    (pc = "done" /\ ModelCount >= 1) => (EndsReturning \/ EndsExhausted)

\* C23 as amended: with fallback enabled and a model list that is not empty,
\* every call ends by returning the extracted text or by raising the
\* aggregate error, and no error of a single attempt reaches the caller;
\* with fallback disabled a failed call raises the error of its one attempt;
\* with an empty model list the call raises the no-models error.
C23_Propagation ==
    pc = "done" =>
        IF ModelCount = 0 THEN EndsWithoutModels
        ELSE IF fallbackEnabled THEN EndsReturning \/ EndsExhausted
        ELSE EndsReturning \/ EndsWithAttemptError

C23_Witness ==
    /\ pc = "done"
    /\ fallbackEnabled
    /\ ModelCount = 3
    /\ Len(attempts) = 3
    /\ attempts[1].resp = Unauthorized
    /\ attempts[2].resp = Garbage
    /\ attempts[3].resp = Unreachable
    /\ EndsExhausted

-----------------------------------------------------------------------------
(* Properties of the pool under concurrency, checked under PoolConcSpec *)

\* the sum of the usage counters of the credentials in the pool
RECURSIVE TotalRequestCount(_)
TotalRequestCount(tracker) ==
    IF tracker = <<>> THEN 0
    ELSE tracker[1].requestCount + TotalRequestCount(Tail(tracker))

\* the calls of getRotatedKey that returned a credential
AcquiredCount == Cardinality({i \in 1..Len(returned) : returned[i] # Null})

\* no thread is inside getRotatedKey or markKeyAsInvalid
Quiescent == \A t \in Threads : ppc[t] = "idle"

\* the operations exclude each other, every increment is kept, and without
\* a retirement the counters differ by at most 1
PoolAtomicity ==
    /\ \A t, u \in Threads : (ppc[t] # "idle" /\ ppc[u] # "idle") => t = u
    /\ Quiescent =>
          /\ TotalRequestCount(keyUsageTracker) + retiredTotal = AcquiredCount
          /\ retired = {} =>
                \A i, j \in 1..Len(keyUsageTracker) :
                    keyUsageTracker[i].requestCount
                        - keyUsageTracker[j].requestCount <= 1

\* C24 (pool atomicity under concurrency): under any interleaving of
\* concurrent getRotatedKey and markKeyAsInvalid calls each operation takes
\* effect atomically: no increment of a usage counter is lost (the counters
\* of the credentials in the pool plus those of the retired ones add up to
\* the number of getRotatedKey calls that returned a credential), and with
\* no retirement the largest and the least counter differ by at most 1.
C24_PoolAtomicity == PoolAtomicity

\* the same for a pool initialized with no credential twice
PoolAtomicityWhenDistinct == NoDuplicates(availableKeys) => []PoolAtomicity

\* two threads have acquired and one has retired a credential that had been
\* handed out
PoolAtomicityReached ==
    /\ Quiescent
    /\ NoDuplicates(availableKeys)
    /\ retiredTotal = 2
    /\ AcquiredCount = 4
    /\ TotalRequestCount(keyUsageTracker) = 2

-----------------------------------------------------------------------------
(* GroqService called again and again by concurrent threads while every      *)
(* attempt fails: the pool is empty, so that each attempt ends with the      *)
(* no-credential error, and a thread whose call has ended issues the next.   *)
(* The failure counters, which no step of the loop reads to choose a model,  *)
(* are counted up to MaxCount and held there.                                *)

LiveInit ==
    \E config \in {ConfigOfModels(n) : n \in 1..MaxConcModels} :
        PoolInitWith(<<>>)
            /\ DispatcherInitWith(config, TRUE, DefaultMaxAttemptsPerModel)

\* a counter one higher, held at MaxCount
CountUpTo(count) == IF count < MaxCount THEN count + 1 ELSE MaxCount

\* line 105, modelFailureCount.put(currentModel, ... + 1)
LFailureWrite(t) ==
    /\ tpc[t] = "failureWrite"
    /\ modelFailureCount' =
          [modelFailureCount EXCEPT ![tModel[t]] = CountUpTo(tRead[t])]
    /\ tRead' = [tRead EXCEPT ![t] = 0]
    /\ tpc' = [tpc EXCEPT ![t] = "cursorRead"]
    /\ UNCHANGED <<poolVars, retired, currentModelIndex, modelSuccessCount,
                   tStart, tTried, tModel, tAttempts, tOutcome>>
    /\ ThreadFrame

\* the call has ended and its caller is ready to issue the next one
TAgain(t) ==
    /\ tpc[t] = "done"
    /\ tpc' = [tpc EXCEPT ![t] = "idle"]
    /\ UNCHANGED <<poolVars, retired, currentModelIndex, modelFailureCount,
                   modelSuccessCount, tStart, tTried, tModel, tRead,
                   tAttempts, tOutcome>>
    /\ ThreadFrame

LiveThreadStep(t) ==
    \/ TEnter(t)
    \/ TTop(t)
    \/ TSend(t)
    \/ TFailureRead(t)
    \/ LFailureWrite(t)
    \/ TCursorRead(t)
    \/ TCursorWrite(t)
    \/ TCursorCheck(t)
    \/ TAgain(t)

LiveNext == \E t \in Threads : LiveThreadStep(t)

\* every thread that can take a step eventually takes one
LiveFairness == \A t \in Threads : WF_vars(LiveThreadStep(t))

LiveSpec == LiveInit /\ [][LiveNext]_vars /\ LiveFairness

\* a thread has just attempted the i-th model of the list
Attempted(i) ==
    \E t \in Threads :
        /\ tpc[t] = "failureRead"
        /\ i <= ModelCount
        /\ tModel[t] = availableModels[i]

\* C25 (liveness under concurrency): when concurrent sendChatCompletion
\* calls keep being issued and every attempt fails, every model of the list
\* is attempted again and again, whatever the races on the cursor.
C25_Liveness ==
    \A i \in 1..MaxConcModels : [](ModelCount >= i => <>Attempted(i))

\* the same for the first model of the list attempted at least once
FirstModelAttempted == <>Attempted(1)

-----------------------------------------------------------------------------
(* GroqService against an upstream that may never answer.  The WebClient of  *)
(* line 33 is built with no response timeout and block() of line 170 is      *)
(* called without a duration: a request that gets no response leaves the     *)
(* caller blocked, and no step of the program ends the wait.                 *)

\* lines 134-170 with a request that is never answered: the key is taken,
\* the request is sent and the thread waits in block()
HangAttempt ==
    /\ pc \in {"loop", "single"}
    /\ LET got == GetRotatedKey(availableKeys, keyUsageTracker)
       IN /\ got.key # Null
          /\ keyUsageTracker' = got.tracker
    /\ totalModelsTried' =
          IF pc = "loop" THEN totalModelsTried + 1 ELSE totalModelsTried
    /\ attemptsMade' = attemptsMade + 1
    /\ pc' = "blocked"
    /\ UNCHANGED <<availableKeys, poolHist, dispVars, startIndex, lastError,
                   attempts, outcome, prev, switched, startKeyCount, adminOps,
                   concVars, lockVars, initVars, chatVars>>

HangNext == Next \/ HangAttempt

\* the calling thread keeps running: an attempt that can be made is made
HangFairness == WF_vars(Attempt \/ SingleAttempt)

HangSpec == Init /\ [][HangNext]_vars /\ HangFairness

\* a sendChatCompletion call is in progress
InCall == pc \in {"loop", "single", "blocked"}

\* C26 (termination): every sendChatCompletion call eventually returns or
\* raises, also when an upstream request never answers.
C26_Termination == [](InCall => <>(pc = "done"))

\* every call whose requests are all answered eventually returns or raises
TerminatesWhenAnswered == [](InCall => <>(pc \in {"done", "blocked"}))

-----------------------------------------------------------------------------
(* Properties of the pool's initialization, checked under KeySpec *)

\* the string has the form of a credential: the prefix gsk_, the least
\* length, and letters and digits only after the prefix
SyntacticallyValid(k) ==
    /\ StartsWithGsk(k)
    /\ KeyLength(k) >= 40
    /\ MatchesKeyPattern(k)

\* C27 (valid credentials): every credential init inserts into the pool is
\* syntactically valid, whether its raw value was plain or had to be
\* decrypted, and so is every credential getRotatedKey returns.
C27_ValidCredentials ==
    /\ \A i \in 1..Len(availableKeys) : SyntacticallyValid(availableKeys[i])
    /\ \A k \in TrackerKeys(keyUsageTracker) : SyntacticallyValid(k)
    /\ \A i \in 1..Len(returned) :
          returned[i] # Null => SyntacticallyValid(returned[i])

C27_Witness ==
    /\ lastOp.op = "init"
    /\ lastOp.arg = <<<<"encK1">>, <<"b64K2">>>>
    /\ availableKeys = <<"k1", "k2">>
    /\ TrackerKeys(keyUsageTracker) = {"k1", "k2"}

\* the raw value r resolves to a credential
Resolvable(r) == SyntacticallyValid(ResolveKey(r))

\* what the init step made of the raw values it found
InitFailsSoft ==
    (~initialized /\ initialized') =>
        LET good == SelectSeq(allRawKeys, Resolvable)
        IN /\ lastOp'.op = "init" /\ lastOp'.result = "ok"
           /\ Len(availableKeys') = Len(good)
           /\ \A i \in 1..Len(good) : availableKeys'[i] = ResolveKey(good[i])
           /\ TrackerKeys(keyUsageTracker')
                 = {ResolveKey(good[i]) : i \in 1..Len(good)}
           /\ good = <<>> =>
                 /\ availableKeys' = <<>>
                 /\ ~HasApiKeys(availableKeys')
                 /\ GetAvailableKeyCount(availableKeys') = 0

\* C28 (init fails soft): whatever raw values the sources hold, init ends
\* without raising; the pool it leaves holds, in order, the credentials of
\* exactly the values that resolve to one, each value that does not being
\* skipped whatever stands before or after it; and when none resolves the
\* pool is empty, hasApiKeys() is false and getAvailableKeyCount() is 0.
C28_InitFailsSoft == [][InitFailsSoft]_vars

C28_Witness ==
    /\ lastOp.op = "init"
    /\ lastOp.result = "ok"
    /\ lastOp.arg = <<<<"encJunk">>, <<"k1">>>>
    /\ availableKeys = <<"k1">>
    /\ HasApiKeys(availableKeys)

\* thread t passes from lines 116-126 to the next attempt, to the throw of
\* the aggregate error
GoesOn(t) == tpc[t] = "cursorCheck" /\ tpc'[t] = "top"

RaisesAll(t) == tpc[t] = "cursorCheck" /\ tpc'[t] = "done"

\* C29 (sequential attempts): within one sendChatCompletion call the next
\* attempt starts only after the attempt before it has failed, the cursor
\* has been advanced and the delay has elapsed, and no delay is inserted
\* after the failure that completes the pass: the aggregate error is raised
\* from the test of the cursor, before the sleep.
C29_SequentialAttempts ==
    [][\A t \in Threads :
          /\ GoesOn(t) =>
                /\ ~tAttempts[t][Len(tAttempts[t])].ok
                /\ Len(tAttempts'[t]) = Len(tAttempts[t])
                /\ SleepsAfterFailure(currentModelIndex, tStart[t])
          /\ RaisesAll(t) =>
                /\ ~tAttempts[t][Len(tAttempts[t])].ok
                /\ ~SleepsAfterFailure(currentModelIndex, tStart[t])]_vars

\* the same for calls that no other call and no switchToModel runs beside:
\* every attempt but the last has failed and was followed by the delay, and
\* the last one is followed by the delay exactly when the loop goes on
SequentialAttemptsWhenAlone ==
    (fallbackEnabled /\ pc \in {"loop", "done"}) =>
        \A i \in 1..Len(attempts) :
            IF i < Len(attempts) \/ pc = "loop"
            THEN ~attempts[i].ok /\ attempts[i].slept
            ELSE ~attempts[i].slept

\* a call alone has raised the aggregate error after a delayed attempt
AloneRaisedAfterDelay ==
    /\ pc = "done"
    /\ fallbackEnabled
    /\ outcome.kind = "raised"
    /\ Len(attempts) >= 2
    /\ attempts[1].slept

\* the models thread t has attempted in its call
ModelsAttemptedBy(t) == {tAttempts[t][i].model : i \in 1..Len(tAttempts[t])}

\* C30 (aggregate error only after a full pass): in every execution, with
\* concurrent sendChatCompletion calls and switchToModel calls moving the
\* shared cursor, a call that raised the aggregate error has attempted every
\* model of the list, each once; the test cursor == start has not ended a
\* call that tried fewer models than the list holds.
C30_AggregateAfterFullPass ==
    \A t \in Threads :
        tOutcome[t] = "raisedAll" =>
            /\ ModelsAttemptedBy(t) = ModelSet(availableModels)
            /\ Len(tAttempts[t]) = ModelCount

\* the same for a call that no other call and no switchToModel runs beside
AggregateAfterFullPassWhenAlone ==
    (pc = "done" /\ fallbackEnabled /\ outcome.kind = "raised"
        /\ ModelCount >= 1) =>
        /\ {attempts[i].model : i \in 1..Len(attempts)}
              = ModelSet(availableModels)
        /\ Len(attempts) = ModelCount

\* a call alone has raised the aggregate error over a list of several models
AloneRaisedAfterFullPass ==
    /\ pc = "done"
    /\ fallbackEnabled
    /\ outcome.kind = "raised"
    /\ ModelCount >= 2
    /\ Len(attempts) = ModelCount

-----------------------------------------------------------------------------
(* Properties of one call among concurrent ones, checked under ConcSpec *)

\* C31 (at most once per model): in every execution, concurrent calls
\* sharing the cursor included, no sendChatCompletion call attempts the same
\* model twice.
C31_AtMostOncePerModel ==
    \A t \in Threads : NoDuplicates([i \in 1..Len(tAttempts[t]) |->
                                        tAttempts[t][i].model])

\* the same for a call that no other call and no switchToModel runs beside
AtMostOncePerModelWhenAlone ==
    NoDuplicates([i \in 1..Len(attempts) |-> attempts[i].model])

\* a call alone has attempted each of three models
AloneAttemptedThree ==
    /\ ModelCount = 3
    /\ Len(attempts) = 3
    /\ pc = "done"

\* the attempts of all threads on model m that ended as ok says
AttemptsOn(m, ok) ==
    {<<t, i>> \in Threads \X (1..MaxConcModels) :
        /\ i <= Len(tAttempts[t])
        /\ tAttempts[t][i].model = m
        /\ tAttempts[t][i].ok = ok}

\* every call that was made has ended
AllCallsEnded == \A t \in Threads : tpc[t] \in {"idle", "done"}

\* the counters of every model account for the attempts of the calls
CountersAccountFor ==
    \A m \in ModelSet(availableModels) :
        /\ modelSuccessCount[m] = Cardinality(AttemptsOn(m, TRUE))
        /\ AttemptsOn(m, TRUE) = {}
              => modelFailureCount[m] = Cardinality(AttemptsOn(m, FALSE))

\* C32 (no lost counter updates): once concurrent fallback calls have ended,
\* with no resetFailureCounts, the success counter of every model is the
\* number of successful attempts on it, and the failure counter of a model
\* on which no attempt succeeded is the number of failed attempts on it.
C32_NoLostUpdates ==
    (AllCallsEnded /\ fallbackEnabled /\ resetPos = 0) => CountersAccountFor

\* the same when one thread alone has made a call
NoLostUpdatesWhenAlone ==
    (AllCallsEnded /\ fallbackEnabled /\ resetPos = 0
        /\ \E t \in Threads : tpc[t] = "idle") => CountersAccountFor

\* one thread alone has made a call that failed on every model
AloneFailedOnAll ==
    /\ ModelCount = 2
    /\ tpc["t1"] = "done" /\ tpc["t2"] = "idle"
    /\ tOutcome["t1"] = "raisedAll"
    /\ Len(tAttempts["t1"]) = 2
    /\ resetPos = 0

-----------------------------------------------------------------------------
(* Properties of the pool from its raw values, checked under KeySpec *)

\* the list and the usage map hold the same credentials
PoolConsistency ==
    /\ KeysOf(availableKeys) = TrackerKeys(keyUsageTracker)
    /\ HasApiKeys(availableKeys) =>
          \E k \in KeysOf(availableKeys) :
              k \notin retired /\ k \in TrackerKeys(keyUsageTracker)
    /\ (lastOp.op = "getRotatedKey" /\ lastOp.result # Null) =>
          lastOp.result \in TrackerKeys(keyUsageTracker)

\* C33 (pool consistency): in every state reached from any raw values, the
\* same credential supplied twice included, and any sequence of
\* getRotatedKey and markKeyAsInvalid, the credentials of availableKeys are
\* exactly the keys of keyUsageTracker; so hasApiKeys() is true only when a
\* credential that was not retired and has a usage record exists, and
\* getRotatedKey never returns a credential without a usage record.
C33_PoolConsistency == PoolConsistency

\* the same for a pool initialized with no credential twice (PoolSpec)
PoolConsistencyWhenDistinct == NoDuplicates(availableKeys) => []PoolConsistency

\* a pool of two distinct credentials has lost one and handed out the other
PoolConsistencyReached ==
    /\ retired = {"k1"}
    /\ availableKeys = <<"k2">>
    /\ lastOp.op = "getRotatedKey"
    /\ lastOp.result = "k2"

-----------------------------------------------------------------------------
(* Further properties of the dispatcher, checked under Spec *)

\* the fallback call has ended with the aggregate error and no switchToModel
\* has moved the cursor since
Exhausted ==
    /\ CallEnded
    /\ fallbackEnabled
    /\ ModelCount >= 1
    /\ outcome.kind = "raised"

\* the next call is entered
NextCallEntered == pc = "done" /\ pc' = "loop"

\* C34 (exhaustion restores the cursor): when a call ends with the aggregate
\* all-models-failed error the cursor is where it was when the call started,
\* and the call that follows starts at the same index, its first model being
\* the first model of the call that failed.
C34_ExhaustionRestoresCursor ==
    /\ [](Exhausted => currentModelIndex = startIndex)
    /\ [][(Exhausted /\ NextCallEntered)
            => /\ startIndex' = startIndex
               /\ availableModels'[startIndex' + 1] = attempts[1].model]_vars

C34_Witness ==
    /\ Exhausted
    /\ ModelCount = 3
    /\ startIndex = 1
    /\ Len(attempts) = 3
    /\ attempts[1].model = "m2"
    /\ currentModelIndex = 1

\* a fallback call entered with exactly one credential in the pool got 401
\* in answer to its first attempt
Collapsed ==
    /\ fallbackEnabled
    /\ pc \in {"loop", "done"}
    /\ startKeyCount = 1
    /\ attempts # <<>>
    /\ attempts[1].resp.status = 401

\* what holds of such a call, as far as it has come
CollapsedCall ==
    /\ availableKeys = <<>>
    /\ attempts[1].key \in retired
    /\ \A i \in 1..Len(attempts) : ~attempts[i].ok
    /\ \A i \in 2..Len(attempts) :
          /\ attempts[i].key = Null
          /\ attempts[i].resp.kind = "none"
          /\ attempts[i].error = <<"No valid API key available">>
    /\ pc = "done" =>
          /\ outcome.kind = "raised"
          /\ Len(attempts) = ModelCount
          /\ {attempts[i].model : i \in 1..Len(attempts)}
                = ModelSet(availableModels)
          /\ outcome.error =
                <<"All Groq models failed. Models tried: ">>
                    \o ArraysToString(availableModels)
                    \o <<"\nLast error: ">> \o attempts[Len(attempts)].error

\* C35 (single-credential collapse): when the pool holds exactly one
\* credential and the first attempt of a fallback call is answered with 401,
\* the credential is retired, every later attempt of the call fails with the
\* no-credential error without a request being issued, the call ends with
\* the aggregate error after one attempt per model, and each attempt adds 1
\* to the failure counter of its model, so that all K counters are raised.
C35_SingleCredentialCollapse ==
    /\ [](Collapsed => CollapsedCall)
    /\ [][(LoopAttempt /\ Collapsed')
            => modelFailureCount'[NewAttempt.model]
                  = modelFailureCount[NewAttempt.model] + 1]_vars

C35_Witness ==
    /\ Collapsed
    /\ pc = "done"
    /\ ModelCount = 3
    /\ Len(attempts) = 3
    /\ attempts[3].resp = NoRequest
    /\ outcome.kind = "raised"
    /\ \A m \in ModelSet(availableModels) : modelFailureCount[m] >= 1

\* a call with fallback disabled has ended after exactly one attempt, whose
\* result is the result of the call
EndedAfterOneAttempt ==
    /\ Len(attempts) = 1
    /\ IF attempts[1].ok
       THEN outcome = Returned(attempts[1].resp.text)
       ELSE outcome = Raised(attempts[1].error)

\* no step of a call with fallback disabled touches the cursor or a counter,
\* and its attempt is made with the model at the cursor
SingleModelStep ==
    (~fallbackEnabled /\ (pc = "single" \/ pc' = "single")) =>
        /\ UNCHANGED <<currentModelIndex, modelFailureCount,
                       modelSuccessCount>>
        /\ AnyAttempt =>
              /\ NewAttempt.model = availableModels[currentModelIndex + 1]
              /\ pc' = "done"

\* C36 (fallback disabled): with the fallback-enabled flag false a
\* sendChatCompletion call makes exactly one attempt, with the model at the
\* cursor; succeeding or failing it leaves the cursor and every success and
\* failure counter unchanged; and a failure reaches the caller as the error
\* of that one attempt.
C36_FallbackDisabled ==
    /\ []((pc = "done" /\ ~fallbackEnabled) => EndedAfterOneAttempt)
    /\ [][SingleModelStep]_vars

\* the same for a model list that is not empty
FallbackDisabledWhenConfigured ==
    /\ []((pc = "done" /\ ~fallbackEnabled /\ ModelCount >= 1)
            => EndedAfterOneAttempt)
    /\ [][SingleModelStep]_vars

\* a call with fallback disabled has failed on the second of three models
FallbackDisabledReached ==
    /\ ~fallbackEnabled
    /\ pc = "done"
    /\ ModelCount = 3
    /\ currentModelIndex = 1
    /\ Len(attempts) = 1
    /\ attempts[1].model = "m2"
    /\ outcome.kind = "raised"

-----------------------------------------------------------------------------
(* Properties of the streaming entry point, checked under StreamSpec *)

\* what one pass of the fallback loop does to the cursor, the counters and
\* the pool
LoopPassEffects ==
    LoopAttempt =>
        LET a == NewAttempt
        IN /\ a.model = availableModels[currentModelIndex + 1]
           /\ IF a.ok
              THEN /\ currentModelIndex' = currentModelIndex
                   /\ modelSuccessCount' =
                         [modelSuccessCount EXCEPT ![a.model] = @ + 1]
                   /\ modelFailureCount' =
                         [modelFailureCount EXCEPT ![a.model] = 0]
              ELSE /\ currentModelIndex' = (currentModelIndex + 1) % ModelCount
                   /\ modelFailureCount' =
                         [modelFailureCount EXCEPT ![a.model] = @ + 1]
                   /\ modelSuccessCount' = modelSuccessCount
           /\ availableKeys' = IF a.resp.status = 401
                               THEN RemoveFirst(availableKeys, a.key)
                               ELSE availableKeys
           /\ TrackerKeys(keyUsageTracker') =
                 IF a.resp.status = 401
                 THEN TrackerKeys(keyUsageTracker) \ {a.key}
                 ELSE TrackerKeys(keyUsageTracker)

\* a subscription with fallback enabled has ended with a value
StreamEnded ==
    /\ pc = "done"
    /\ fallbackEnabled
    /\ outcome.kind = "returned"
    /\ ModelCount >= 1 =>
          /\ attempts # <<>>
          /\ IF LastAttempt.ok
             THEN outcome.content = LastAttempt.resp.text
             ELSE /\ Len(attempts) = ModelCount
                  /\ \A i \in 1..Len(attempts) : ~attempts[i].ok
                  /\ currentModelIndex = startIndex
                  /\ outcome.content =
                        <<"Error: ", "All Groq models failed. Models tried: ">>
                            \o ArraysToString(availableModels)
                            \o <<"\nLast error: ">> \o LastAttempt.error

\* C37 (streaming entry point): with fallback enabled sendChatCompletionStream
\* runs the fallback loop, each pass with the effects on cursor, counters
\* and pool it has under sendChatCompletion, and never signals an error: it
\* yields the extracted text, or after a pass in which every model failed
\* the text "Error: " followed by the aggregate message.
C37_StreamNeverFails ==
    /\ []((pc = "done" /\ fallbackEnabled) => StreamEnded)
    /\ [][LoopPassEffects]_vars

C37_Witness ==
    /\ StreamEnded
    /\ lastOp.op = "sendChatCompletionStream"
    /\ ModelCount = 2
    /\ Len(attempts) = 2
    /\ attempts[1].resp = Unauthorized
    /\ attempts[2].resp = RateLimited
    /\ outcome.content[1] = "Error: "

-----------------------------------------------------------------------------
(* Properties of ChatService, checked under ChatSpec *)

\* a step that changes the repository is taken by a ChatService call whose
\* sendChatCompletion has returned, and saves the text it returned: as the
\* response of a new row, or as the response of the row being regenerated
SavesOnlyAfterReturn ==
    chats' # chats =>
        /\ chatCall.op # "none"
        /\ lastOp.op = "sendChatCompletion"
        /\ pc = "done"
        /\ outcome.kind = "returned"
        /\ IF chatCall.op = "processMessage"
           THEN /\ Len(chats') = Len(chats) + 1
                /\ SubSeq(chats', 1, Len(chats)) = chats
                /\ chats'[Len(chats')].response = outcome.content
           ELSE /\ Len(chats') = Len(chats)
                /\ \A i \in 1..Len(chats) :
                      chats'[i] = IF i = chatCall.chatId
                                  THEN [chats[i] EXCEPT
                                           !.response = outcome.content]
                                  ELSE chats[i]

\* a ChatService call whose sendChatCompletion raised ends without a save
NoSaveOnRaise ==
    (chatCall.op # "none" /\ chatCall'.op = "none"
        /\ outcome.kind = "raised") => chats' = chats

\* C38 (no persistence on failed dispatch): processMessage saves a chat row
\* only after sendChatCompletion has returned text, regenerateResponse
\* overwrites the stored response only after it has returned, and when the
\* dispatcher raises no row is created and the stored response is unchanged.
C38_NoPersistenceOnFailure == [][SavesOnlyAfterReturn /\ NoSaveOnRaise]_vars

C38_Witness ==
    /\ lastOp.op = "regenerateResponse"
    /\ lastOp.result = "raised"
    /\ Len(chats) = 1
    /\ chats[1].response = "hello"
    /\ outcome.kind = "raised"

=============================================================================
